---- MODULE Spec2Model ----
(***************************************************************************)
(* Model of the request-orchestration core of the IQA server:              *)
(*   iqa_server/utils/performance.py   LRUCache (cache, timestamps, lock)  *)
(*   iqa_server/server/handlers.py     handle_assess_image_quality,        *)
(*                                     handle_batch_assessment             *)
(* Python strings are TLA+ strings (f-strings are \o), Python dicts are    *)
(* functions; the timestamps dict is kept as a sequence of items because   *)
(* min() over dict.items() depends on the insertion order.                 *)
(***************************************************************************)
EXTENDS Integers, Sequences, FiniteSets, TLC

(***************************************************************************)
(* Bounds of the model and constants of the program.                       *)
(***************************************************************************)
\* core/constants.py: CACHE_TIMEOUT = 3600 (seconds)
CACHE_TIMEOUT == 3600
\* seconds that pass in one step of the clock
ClockStep == 3600
\* number of clock steps of a run
MaxTicks == 2
\* largest maxsize a cache is constructed with
MaxSize == 2

\* single-image requests handled in one run
MaxRequests == 2

MaxTime == MaxTicks * ClockStep

\* Python None where a number is expected (scores are >= 1 in the model)
None == 0
\* keys and values of the direct cache operations (tests use key1..key3)
Keys == {"key1", "key2", "key3"}
Values == {1, 2}

VARIABLES
    now,          \* the reading of time.time()
    maxsize,      \* LRUCache.maxsize
    cache,        \* LRUCache.cache: key -> value
    timestamps,   \* LRUCache.timestamps: [key, val] items in dict order, val the time
    last,         \* the last cache operation and what it returned
    created,      \* history: time of the put that created each stored entry
    run,          \* history: the puts made since the cache was last empty
    written,      \* history: the latest put of each key ever put
    seen,         \* history: the first single-image request and its answer
    call,         \* the running handle_assess_image_quality call (one at a time)
    batch,        \* the running handle_batch_assessment call and its tasks
    resp,         \* what the last finished request gave its caller
    nreq,         \* number of single-image requests received
    monitor_metrics,  \* PerformanceMonitor.metrics: func_name -> the dict object
    heap,         \* the statistics dict objects, by identity (1, 2, ...)
    monitor_lock, \* PerformanceMonitor._lock: the thread that holds it, 0 if free
    cache_lock,   \* LRUCache._lock: the thread that holds it, 0 if free
    th,           \* the threads: where each is in a tracked call or monitor call
    snap,         \* the value the latest get_metrics call gave its caller
    tracked,      \* history: the tracked calls made and returned
    recorded,     \* history: the durations stored per function since its last reset
    answer,       \* the last call of a pure function: its arguments and its outcome
    server,       \* the IQAServer object: its metric registry and its lifecycle
    indicator     \* the BaseIndicator object: its metric instance and its flag

cacheVars == <<maxsize, cache, timestamps>>
histVars == <<last, created, run, written, seen>>
handlerVars == <<call, batch, resp, nreq>>
monVars == <<monitor_metrics, heap, monitor_lock, cache_lock, th, snap, tracked>>
svcVars == <<recorded, answer, server, indicator>>

(***************************************************************************)
(* Python dicts whose order matters (timestamps, results, errors) are      *)
(* sequences of [key, val] items in insertion order.                       *)
(***************************************************************************)
DictKeys(ts) == {ts[i].key : i \in 1..Len(ts)}

DictGet(ts, key) == ts[CHOOSE i \in 1..Len(ts) : ts[i].key = key].val

\* d[key] = val : an existing key keeps its position, a new key goes last
DictSet(ts, key, val) ==
    IF key \in DictKeys(ts)
    THEN [i \in 1..Len(ts) |-> IF ts[i].key = key THEN [key |-> key, val |-> val] ELSE ts[i]]
    ELSE Append(ts, [key |-> key, val |-> val])

\* d.pop(key)
DictPop(ts, key) == SelectSeq(ts, LAMBDA e : e.key # key)

\* c.pop(key) on the value dict
FunPop(c, key) == [k \in (DOMAIN c) \ {key} |-> c[k]]

\* c[key] = value on the value dict
FunSet(c, key, value) == [k \in (DOMAIN c) \cup {key} |-> IF k = key THEN value ELSE c[k]]

\* a mutant of lru_key: the most recently used item
mru_key(ts) ==
    ts[CHOOSE i \in 1..Len(ts) : \A j \in 1..Len(ts) : ts[j].val <= ts[i].val].key

\* min(self.timestamps.items(), key=lambda x: x[1])[0]: the first item, in
\* dict order, among those with the smallest timestamp
lru_key(ts) ==
    ts[CHOOSE i \in 1..Len(ts) :
          /\ \A j \in 1..Len(ts) : ts[i].val <= ts[j].val
          /\ \A j \in 1..(i - 1) : ts[j].val > ts[i].val].key

(***************************************************************************)
(* LRUCache.get: t1 is the clock reading of the expiry check, t2 that of   *)
(* the refresh.                                                            *)
(***************************************************************************)
\* a mutant of expired: an entry expires when exactly one TTL has passed
expired_at_ttl(ts, key, t1) == t1 - DictGet(ts, key) >= CACHE_TIMEOUT

expired(ts, key, t1) == t1 - DictGet(ts, key) > CACHE_TIMEOUT

\* a mutant of get: every lookup misses
get_always_miss(c, ts, key, t1, t2) == [ret |-> None, cache |-> c, timestamps |-> ts]

\* a mutant of get: an expired entry is reported absent and left in the store
get_no_purge(c, ts, key, t1, t2) ==
    IF key \notin DOMAIN c
    THEN [ret |-> None, cache |-> c, timestamps |-> ts]
    ELSE IF expired(ts, key, t1)
    THEN [ret |-> None, cache |-> c, timestamps |-> DictSet(ts, key, t2)]
    ELSE [ret |-> c[key], cache |-> c, timestamps |-> DictSet(ts, key, t2)]

get(c, ts, key, t1, t2) ==
    IF key \notin DOMAIN c
    THEN [ret |-> None, cache |-> c, timestamps |-> ts]
    ELSE IF expired(ts, key, t1)
    THEN [ret |-> None, cache |-> FunPop(c, key), timestamps |-> DictPop(ts, key)]
    ELSE [ret |-> c[key], cache |-> c, timestamps |-> DictSet(ts, key, t2)]

(***************************************************************************)
(* LRUCache.put                                                            *)
(***************************************************************************)
\* a mutant of put: no eviction when the cache is full
put_no_evict(c, ts, size, key, value, t) ==
    [cache |-> FunSet(c, key, value), timestamps |-> DictSet(ts, key, t)]

put(c, ts, size, key, value, t) ==
    LET full == Cardinality(DOMAIN c) >= size
        c1 == IF full THEN FunPop(c, lru_key(ts)) ELSE c
        ts1 == IF full THEN DictPop(ts, lru_key(ts)) ELSE ts
    IN [cache |-> FunSet(c1, key, value), timestamps |-> DictSet(ts1, key, t)]

(***************************************************************************)
(* History bookkeeping of the contiguous run of puts since the cache was   *)
(* last empty.                                                             *)
(***************************************************************************)
EmptyRun == [puts |-> <<>>, ok |-> TRUE]
BrokenRun == [puts |-> <<>>, ok |-> FALSE]

RunAfter(c2, r) == IF DOMAIN c2 = {} THEN EmptyRun ELSE r

\* created follows the stored keys: a removed key has no creation time
CreatedAfter(c2, cr) == [k \in DOMAIN c2 |-> cr[k]]

\* written after put(key, value) at time t left the store c2: the put is
\* recorded, the puts of the keys it evicted are no longer live
Gone == [val |-> None, t |-> 0, live |-> FALSE]

WrittenAfterPut(c2, w, key, value, t) ==
    [k \in (DOMAIN w) \cup {key} |->
        IF k = key THEN [val |-> value, t |-> t, live |-> TRUE]
        ELSE IF k \in DOMAIN c2 THEN w[k]
        ELSE Gone]

\* written after clear()
WrittenAfterClear(w) == [k \in DOMAIN w |-> Gone]

(***************************************************************************)
(* The collaborators of the handlers: the metric catalog of the provider   *)
(* (pyiqa), the files validate_image_path looks at, the scores.            *)
(***************************************************************************)
\* Python None where a string is expected, and where a list is expected
NoneStr == "<None>"
NoneList == <<NoneStr>>

\* truth value of an optional string and of an optional list
Truthy(x) == x # NoneStr /\ x # ""
TruthyList(x) == x # NoneList /\ x # <<>>

SeqElems(q) == {q[i] : i \in 1..Len(q)}

\* pyiqa.get_fr_metrics(), pyiqa.get_nr_metrics()
get_fr_metrics == <<"psnr">>
get_nr_metrics == <<"niqe", "brisque">>

\* core/constants.py: the module binds SUPPORTED_FORMATS twice, on line 20
\* (with ".webp") and again on line 126; the second binding is the one the
\* importers get
SUPPORTED_FORMATS == {".jpg", ".jpeg", ".png", ".bmp", ".tiff"}

\* the files on disk: path -> whether Image.verify() accepts it; a file
\* name may hold a colon
Files ==
    [p \in {"a.png", "b.png", "r.png", "x.png", "c.txt", "B.PNG", "w.webp",
            "c.png", "a.png:b.png", "b.png:c.png"} |->
        [verifies |-> p # "x.png"]]

\* paths that name no file
MissingPaths == {"nonexistent.jpg", "invalid.xyz"}

\* Path(path).suffix
suffix(path) ==
    CASE path = "c.txt" -> ".txt"
      [] path = "B.PNG" -> ".PNG"
      [] path = "w.webp" -> ".webp"
      [] path = "nonexistent.jpg" -> ".jpg"
      [] path = "invalid.xyz" -> ".xyz"
      [] OTHER -> ".png"

\* str.lower() on a suffix
lower(str) == IF str = ".PNG" THEN ".png" ELSE str

\* utils/validation.py lines 25-39 (the argument is a str)
validate_image_path(path) ==
    IF path \notin DOMAIN Files
    THEN [is_valid |-> FALSE, error |-> "Image file not found: " \o path]
    ELSE IF lower(suffix(path)) \notin SUPPORTED_FORMATS
    THEN [is_valid |-> FALSE, error |-> "Unsupported image format: " \o suffix(path)]
    ELSE IF ~Files[path].verifies
    THEN [is_valid |-> FALSE, error |-> "Invalid image file: " \o path]
    ELSE [is_valid |-> TRUE, error |-> NoneStr]

\* float(metric(image_path[, reference_path])): the provider is a function of
\* its inputs; scores are numbers >= 1 in the model
metric_score(metric_name, image_path, reference_path) ==
    (IF image_path = "a.png" THEN 1 ELSE 2) + (IF Truthy(reference_path) THEN 2 ELSE 0)

\* the inputs of the requests
ImagePaths == {"a.png", "x.png"}
ReferencePaths == {NoneStr, "", "r.png", "missing.png"}
MetricLists ==
    {NoneList, <<"niqe">>, <<"niqe", "brisque">>, <<"psnr">>, <<"psnr", "niqe">>,
     <<"bogus">>, <<"bogus", "niqe">>, <<"niqe", "niqe">>}

(***************************************************************************)
(* handle_assess_image_quality                                             *)
(***************************************************************************)
Raise(type, msg) == [raised |-> TRUE, type |-> type, msg |-> msg,
                     fr_metrics |-> <<>>, nr_metrics |-> <<>>]

\* a mutant of Prologue: the reference check of lines 64-66 left out
PrologueNoReferenceCheck(image_path, metrics, reference_path) ==
    LET v1 == validate_image_path(image_path)
        v2 == validate_image_path(reference_path)
        ms == IF metrics = NoneList
              THEN (IF Truthy(reference_path) THEN get_fr_metrics ELSE get_nr_metrics)
              ELSE metrics
        fr == SelectSeq(ms, LAMBDA m : m \in SeqElems(get_fr_metrics))
        nr == SelectSeq(ms, LAMBDA m : m \in SeqElems(get_nr_metrics))
    IN  IF ~v1.is_valid
        THEN Raise("InvalidInputError", "Invalid image path: " \o v1.error)
        ELSE IF Truthy(reference_path) /\ ~v2.is_valid
        THEN Raise("InvalidInputError", "Invalid reference image path: " \o v2.error)
        ELSE [raised |-> FALSE, type |-> "", msg |-> "",
              fr_metrics |-> fr, nr_metrics |-> nr]

\* a mutant of Prologue: the validation of the reference path, lines 44-47,
\* left out
PrologueNoReferenceValidation(image_path, metrics, reference_path) ==
    LET v1 == validate_image_path(image_path)
        ms == IF metrics = NoneList
              THEN (IF Truthy(reference_path) THEN get_fr_metrics ELSE get_nr_metrics)
              ELSE metrics
        fr == SelectSeq(ms, LAMBDA m : m \in SeqElems(get_fr_metrics))
        nr == SelectSeq(ms, LAMBDA m : m \in SeqElems(get_nr_metrics))
    IN  IF ~v1.is_valid
        THEN Raise("InvalidInputError", "Invalid image path: " \o v1.error)
        ELSE IF fr # <<>> /\ ~Truthy(reference_path)
        THEN Raise("InvalidInputError", "Reference image required for metrics")
        ELSE [raised |-> FALSE, type |-> "", msg |-> "",
              fr_metrics |-> fr, nr_metrics |-> nr]

\* lines 39-66: validation, default metrics, grouping, reference check; the
\* message of line 66 is kept without the list it ends with
Prologue(image_path, metrics, reference_path) ==
    LET v1 == validate_image_path(image_path)
        v2 == validate_image_path(reference_path)
        ms == IF metrics = NoneList
              THEN (IF Truthy(reference_path) THEN get_fr_metrics ELSE get_nr_metrics)
              ELSE metrics
        fr == SelectSeq(ms, LAMBDA m : m \in SeqElems(get_fr_metrics))
        nr == SelectSeq(ms, LAMBDA m : m \in SeqElems(get_nr_metrics))
    IN  IF ~v1.is_valid
        THEN Raise("InvalidInputError", "Invalid image path: " \o v1.error)
        ELSE IF Truthy(reference_path) /\ ~v2.is_valid
        THEN Raise("InvalidInputError", "Invalid reference image path: " \o v2.error)
        ELSE IF fr # <<>> /\ ~Truthy(reference_path)
        THEN Raise("InvalidInputError", "Reference image required for metrics")
        ELSE [raised |-> FALSE, type |-> "", msg |-> "",
              fr_metrics |-> fr, nr_metrics |-> nr]

\* f"{metric_name}:{image_path}" and f"{metric_name}:{image_path}:{reference_path}"
cache_key(kind, metric_name, image_path, reference_path) ==
    IF kind = "nr"
    THEN metric_name \o ":" \o image_path
    ELSE metric_name \o ":" \o image_path \o ":" \o reference_path

\* list(d.keys())
KeyList(d) == [i \in 1..Len(d) |-> d[i].key]

\* str(reference_path) if reference_path else None
RefOrNone(reference_path) == IF Truthy(reference_path) THEN reference_path ELSE NoneStr

\* lines 103-112: the response of a call that reached the end of its loops
Response(image_path, reference_path, results, errors) ==
    [scores |-> results,
     errors |-> errors,
     metadata |-> [image_path |-> image_path,
                   reference_path |-> RefOrNone(reference_path),
                   metrics_computed |-> KeyList(results),
                   failed_metrics |-> KeyList(errors)]]

IdleCall ==
    [pc |-> "idle", owner |-> -1, image_path |-> "", reference_path |-> NoneStr,
     metrics |-> <<>>, todo |-> <<>>, results |-> <<>>, errors |-> <<>>,
     pok |-> {}, pfail |-> {}]

\* the call after its prologue: the no-reference loop, then the full-reference loop
StartedCall(owner, image_path, metrics, reference_path, pro) ==
    [pc |-> "loop", owner |-> owner, image_path |-> image_path,
     reference_path |-> reference_path, metrics |-> metrics,
     todo |-> [i \in 1..Len(pro.nr_metrics) |-> [kind |-> "nr", name |-> pro.nr_metrics[i]]]
              \o [i \in 1..Len(pro.fr_metrics) |-> [kind |-> "fr", name |-> pro.fr_metrics[i]]],
     results |-> <<>>, errors |-> <<>>, pok |-> {}, pfail |-> {}]

\* what a caller gets: a response, an exception, or the list of a batch;
\* req, pok, pfail, units and order record the request and what the
\* provider did for it
Resp(kind, value, type, msg, req, pok, pfail, units, order) ==
    [kind |-> kind, value |-> value, type |-> type, msg |-> msg, req |-> req,
     pok |-> pok, pfail |-> pfail, units |-> units, order |-> order]

NoReq == [image_path |-> "", metrics |-> <<>>, reference_path |-> NoneStr]

NoResp == Resp("none", <<>>, "", "", NoReq, {}, {}, <<>>, <<>>)

\* history of the requests: the answer of the first single-image request,
\* the clock when it was received, the clock when the latest answer was
\* given, and whether every put of a handler found room in the cache
NothingSeen == [first |-> NoResp, t0 |-> 0, tret |-> 0, roomy |-> TRUE]

\* a mutant of FailedMetric: the provider's exception leaves the handler
\* instead of being recorded
FailedMetricRaises(c, name) == [c EXCEPT !.pc = "fault", !.pfail = @ \cup {name}]

\* lines 84-85, 101-102: except Exception as e: errors[metric_name] = str(e)
FailedMetric(c, name) ==
    [c EXCEPT !.todo = Tail(@),
              !.errors = DictSet(@, name, "provider error"),
              !.pfail = @ \cup {name}]

\* a mutant of cache_after_failure: the failure is stored under the key
cache_after_failure_stores(g, size, key, t) ==
    put(g.cache, g.timestamps, size, key, None, t)

\* lines 84-85, 101-102: the except branch makes no call of the cache, which
\* stays as cache.get (g) left it
cache_after_failure(g, size, key, t) ==
    [cache |-> g.cache, timestamps |-> g.timestamps]

(***************************************************************************)
(* handle_batch_assessment                                                 *)
(***************************************************************************)
IdleBatch ==
    [pc |-> "idle", image_paths |-> <<>>, reference_paths |-> NoneList,
     metrics |-> <<>>, slots |-> <<>>, order |-> <<>>]

Slot(kind, item, pok, pfail) == [kind |-> kind, item |-> item, pok |-> pok, pfail |-> pfail]

Pending == Slot("pending", <<>>, {}, {})

\* a task that entered process_single_image and has not returned
Running == Slot("running", <<>>, {}, {})

\* the inputs of the batch requests
MaxBatch == 2
BatchImages == {"a.png", "x.png"}
BatchReferences == {"r.png", "missing.png"}
BatchImageLists == UNION {[1..n -> BatchImages] : n \in 0..MaxBatch}
BatchReferenceLists == {NoneList} \cup UNION {[1..n -> BatchReferences] : n \in 0..MaxBatch}
BatchMetricLists == {<<"niqe">>, <<"psnr", "niqe">>}

\* a mutant of AssessmentError: the failure is swallowed, the item is empty
AssessmentErrorEmpty(image_path, reference_path, msg) ==
    [scores |-> <<>>,
     errors |-> <<>>,
     metadata |-> [image_path |-> image_path,
                   reference_path |-> RefOrNone(reference_path),
                   metrics_computed |-> <<>>,
                   failed_metrics |-> <<>>]]

\* lines 148-158: the item process_single_image returns when its call raised
AssessmentError(image_path, reference_path, msg) ==
    [scores |-> <<>>,
     errors |-> <<[key |-> "assessment_error", val |-> msg]>>,
     metadata |-> [image_path |-> image_path,
                   reference_path |-> RefOrNone(reference_path),
                   metrics_computed |-> <<>>,
                   failed_metrics |-> <<"all">>]]

\* reference_paths[idx] if reference_paths else None
UnitReference(reference_paths, idx) ==
    IF TruthyList(reference_paths) THEN reference_paths[idx] ELSE NoneStr

\* a mutant of gather: the results in the order the tasks finished
gather_as_completed(slots, order) == [k \in 1..Len(order) |-> slots[order[k]].item]

\* asyncio.gather(*tasks): the results in the order of the tasks
gather(slots, order) == [i \in 1..Len(slots) |-> slots[i].item]

(***************************************************************************)
(* PerformanceMonitor and the locks. A statistics dict is an object: the   *)
(* heap holds the objects, monitor_metrics and the values get_metrics      *)
(* returns hold references to them. A thread is a caller with its own      *)
(* event loop; it makes one tracked call or one monitor call at a time.    *)
(***************************************************************************)
Threads == {1, 2}
\* tracked calls and monitor calls (get_metrics, reset) made in one run
MaxCalls == 2
MaxQueries == 1

\* float('inf')
Inf == 1000000

Min(a, b) == IF a <= b THEN a ELSE b
Max(a, b) == IF a >= b THEN a ELSE b

\* the tracked operations: the handler is a coroutine function, test_func of
\* the tests a plain function; the images the handler is called with
TrackedNames == {"handle_assess_image_quality", "test_func"}
iscoroutinefunction(func_name) == func_name = "handle_assess_image_quality"
TrackedArgs(func_name) == IF iscoroutinefunction(func_name) THEN {"a.png", "x.png"} ELSE {""}
QueryNames == TrackedNames \cup {NoneStr}

\* what a call gives its caller: a value, an exception, or a coroutine object
NoResult == [kind |-> "none", what |-> "", score |-> None]
Value(what, score) == [kind |-> "value", what |-> what, score |-> score]
Exception(what) == [kind |-> "exception", what |-> what, score |-> None]
Coroutine == [kind |-> "coroutine", what |-> "", score |-> None]

IdleThread ==
    [pc |-> "idle", func_name |-> "", arg |-> "", start_time |-> 0, duration |-> 0,
     ret |-> None, score |-> None, count |-> 0, result |-> NoResult,
     got |-> NoResult, unwrapped |-> NoResult, clean |-> TRUE, stale |-> FALSE]

\* the thread back in its caller: only the histories of the call are kept
Returned(r, got, unwrapped) ==
    [IdleThread EXCEPT !.func_name = r.func_name, !.got = got,
                       !.unwrapped = unwrapped, !.clean = r.clean]

\* lines 53-59: the dict of a function seen for the first time; avg_time is
\* kept as the quotient num / den
NewStats ==
    [count |-> 0, total_time |-> 0, min_time |-> Inf, max_time |-> 0,
     avg_time |-> [num |-> 0, den |-> 1]]

\* a mutant of update_stats: min() of line 64 is left out
update_stats_no_min(m, count, duration) ==
    [count |-> count + 1,
     total_time |-> m.total_time + duration,
     min_time |-> m.min_time,
     max_time |-> Max(m.max_time, duration),
     avg_time |-> [num |-> m.total_time + duration, den |-> count + 1]]

\* a mutant of reset: the named function is not looked at
reset_clears_all(mm, func_name) == <<>>

\* lines 62-66, count being the value line 62 read
update_stats(m, count, duration) ==
    [count |-> count + 1,
     total_time |-> m.total_time + duration,
     min_time |-> Min(m.min_time, duration),
     max_time |-> Max(m.max_time, duration),
     avg_time |-> [num |-> m.total_time + duration, den |-> count + 1]]

\* a mutant of with_exit: the lock is not released when the block is left
with_exit_leak(lock, t) == lock

\* the end of a "with self._lock:" block, on any path out of it
with_exit(lock, t) == 0

\* get_metrics, lines 71-73: the dict of the function itself, or a new empty
\* dict, or a copy of the outer dict that holds the same inner dicts
get_metrics(mm, func_name) ==
    IF Truthy(func_name)
    THEN [n \in (DOMAIN mm) \cap {func_name} |-> mm[n]]
    ELSE mm

\* reset, lines 78-81
reset(mm, func_name) ==
    IF Truthy(func_name) THEN FunPop(mm, func_name) ELSE <<>>

\* what the holder of references reads through them
Deref(refs, h) == [n \in DOMAIN refs |-> h[refs[n]]]

NoSnap == [kind |-> "none", func_name |-> NoneStr, refs |-> <<>>, copy |-> <<>>]

NothingTracked ==
    [calls |-> 0, queries |-> 0, returned |-> [n \in TrackedNames |-> 0]]

\* the key and the metric of the tracked handler call
TrackedKey(arg) == cache_key("nr", "niqe", arg, NoneStr)

(***************************************************************************)
(* Score interpretation: indicators/interpretations.py and the             *)
(* get_metric_interpretation tool of server/mcp_server.py. An optional     *)
(* score is <<>> (None) or <<v>>; a dict is a function of its keys.        *)
(***************************************************************************)
\* the scores asked about
Scores == -1..101
NoneScore == <<>>
OptionalScores == {NoneScore} \cup {<<v>> : v \in Scores}

Returns(value) == [kind |-> "return", value |-> value, type |-> ""]
Raises(type) == [kind |-> "raise", value |-> <<>>, type |-> type]

ScoreRange(min_val, max_val, description) ==
    [min_val |-> min_val, max_val |-> max_val, description |-> description]

\* ScoreRange.contains, line 18
contains(range_, score) == range_.min_val <= score /\ score <= range_.max_val

\* INTERPRETATIONS, lines 36-108: the metrics whose bands are whole numbers
INTERPRETATIONS ==
    [psnr |-> [name |-> "PSNR", lower_better |-> FALSE,
               ranges |-> << ScoreRange(40, Inf, "Excellent quality (near perfect)"),
                             ScoreRange(30, 40, "Good quality (minor imperfections)"),
                             ScoreRange(20, 30, "Fair quality (noticeable degradation)"),
                             ScoreRange(10, 20, "Poor quality (significant degradation)"),
                             ScoreRange(0, 10, "Very poor quality (severe degradation)") >>],
     brisque |-> [name |-> "BRISQUE", lower_better |-> TRUE,
               ranges |-> << ScoreRange(0, 20, "Excellent quality (highly natural images)"),
                             ScoreRange(20, 40, "Good quality (natural images)"),
                             ScoreRange(40, 60, "Fair quality (mildly distorted images)"),
                             ScoreRange(60, 80, "Poor quality (distorted images)"),
                             ScoreRange(80, 100, "Very poor quality (heavily distorted images)") >>],
     niqe |-> [name |-> "NIQE", lower_better |-> TRUE,
               ranges |-> << ScoreRange(0, 2, "Excellent quality (highly natural)"),
                             ScoreRange(2, 4, "Good quality (natural)"),
                             ScoreRange(4, 6, "Fair quality (mildly unnatural)"),
                             ScoreRange(6, 8, "Poor quality (unnatural)"),
                             ScoreRange(8, Inf, "Very poor quality (highly unnatural)") >>]]

\* MetricInterpretation.interpret, lines 30-33: the first range of the list
\* that contains the score
RECURSIVE first_containing(_, _)
first_containing(ranges, score) ==
    IF ranges = <<>> THEN "Score out of expected ranges"
    ELSE IF contains(Head(ranges), score) THEN Head(ranges).description
    ELSE first_containing(Tail(ranges), score)

interpret(metric_name, score) ==
    first_containing(INTERPRETATIONS[metric_name].ranges, score)

\* get_interpretation, lines 121-135
get_interpretation(metric_name, score) ==
    IF metric_name \notin DOMAIN INTERPRETATIONS THEN Raises("ValueError")
    ELSE LET interp == INTERPRETATIONS[metric_name]
             result == [name |-> interp.name, lower_better |-> interp.lower_better,
                        ranges |-> interp.ranges]
         IN IF score # NoneScore
            THEN Returns([n \in {"name", "lower_better", "ranges", "score", "interpretation"} |->
                            CASE n = "score" -> score[1]
                              [] n = "interpretation" -> interpret(metric_name, score[1])
                              [] OTHER -> result[n]])
            ELSE Returns(result)

\* core/constants.py METRIC_INTERPRETATIONS as bound on line 144 (the module
\* binds the name on line 65 and again on line 144): the items of each
\* "ranges" dict in insertion order
METRIC_INTERPRETATIONS ==
    [brisque |-> [better |-> "lower",
                  ranges |-> << ScoreRange(0, 20, "Excellent quality"),
                                ScoreRange(20, 40, "Good quality"),
                                ScoreRange(40, 60, "Fair quality"),
                                ScoreRange(60, 80, "Poor quality"),
                                ScoreRange(80, 100, "Very poor quality") >>],
     nrqm |-> [better |-> "higher",
                  ranges |-> << ScoreRange(0, 20, "Very poor quality"),
                                ScoreRange(20, 40, "Poor quality"),
                                ScoreRange(40, 60, "Fair quality"),
                                ScoreRange(60, 80, "Good quality"),
                                ScoreRange(80, 100, "Excellent quality") >>],
     lpips |-> [better |-> "lower",
                  ranges |-> << ScoreRange(0, 20, "Very similar"),
                                ScoreRange(20, 40, "Similar"),
                                ScoreRange(40, 60, "Moderately different"),
                                ScoreRange(60, 80, "Different"),
                                ScoreRange(80, 100, "Very different") >>],
     ssim |-> [better |-> "higher",
                  ranges |-> << ScoreRange(0, 20, "Very low structural similarity"),
                                ScoreRange(20, 40, "Low structural similarity"),
                                ScoreRange(40, 60, "Moderate structural similarity"),
                                ScoreRange(60, 80, "High structural similarity"),
                                ScoreRange(80, 100, "Very high structural similarity") >>]]

\* mcp_server.py lines 110-118: the loop over interp["ranges"].items(); the
\* response of the first range that holds the score, or <<>> when the loop
\* ends without one
RECURSIVE first_range_response(_, _, _, _)
first_range_response(items, metric_name, score, interp) ==
    IF items = <<>> THEN <<>>
    ELSE IF Head(items).min_val <= score /\ score <= Head(items).max_val
    THEN [metric |-> metric_name, score |-> score,
          interpretation |-> Head(items).description,
          better_direction |-> interp.better, ranges |-> interp.ranges]
    ELSE first_range_response(Tail(items), metric_name, score, interp)

\* handle_tool_call for get_metric_interpretation, lines 100-124
get_metric_interpretation(metric_name, score) ==
    IF metric_name \notin DOMAIN METRIC_INTERPRETATIONS
    THEN Raises("InvalidInputError")
    ELSE LET interp == METRIC_INTERPRETATIONS[metric_name]
             found == IF score # NoneScore
                      THEN first_range_response(interp.ranges, metric_name, score[1], interp)
                      ELSE <<>>
         IN IF found # <<>> THEN Returns(found)
            ELSE Returns([metric |-> metric_name, better_direction |-> interp.better,
                          ranges |-> interp.ranges])

\* the metric names asked about: with bands in both tables, in one, in none
InterpretedNames == {"brisque", "psnr", "niqe", "nrqm", "ssim", "unknown"}

(***************************************************************************)
(* IQAServer of server/mcp_server.py: the registry self._metrics of metric *)
(* instances. The class statement binds __init__, startup, shutdown and    *)
(* handle_tool_call a second time on lines 151-203, from a draft whose     *)
(* __init__ cannot run in this module (get_available_indicators is not a   *)
(* name of it); the model is of the methods of lines 33-148.               *)
(***************************************************************************)
\* core/constants.py lines 37-38
DEFAULT_FR_METRICS == <<"psnr", "ssim", "lpips">>
DEFAULT_NR_METRICS == <<"niqe", "brisque">>
\* the names _get_or_create_metric is called with
RegistryNames == SeqElems(DEFAULT_FR_METRICS \o DEFAULT_NR_METRICS) \cup {"musiq"}
\* the names a caller asks _get_or_create_metric for: a default metric and
\* another one
RequestedNames == {"psnr", "musiq"}
\* calls of shutdown in one run
MaxShutdowns == 2

\* a metric instance: the serial-th object pyiqa.create_metric made for name
Instance(name, serial) == [name |-> name, serial |-> serial]
NoInstance == Instance("", 0)

NoCall == [op |-> "none", name |-> "", kind |-> "return", type |-> "", ret |-> NoInstance,
           before |-> <<>>]

\* __init__, lines 40-43; made and created are histories: the instances ever
\* made of each name, and those made since the registry was last emptied
NewServer ==
    [metrics |-> <<>>,
     made |-> [n \in RegistryNames |-> 0],
     created |-> [n \in RegistryNames |-> 0],
     shutdowns |-> 0,
     last |-> NoCall]

\* a mutant of get_or_create_metric: the test of line 139 is left out
get_or_create_metric_always(srv, metric_name, ok) ==
    IF ~ok
    THEN [srv |-> srv, kind |-> "raise", type |-> "ServerError", ret |-> NoInstance]
    ELSE LET inst == Instance(metric_name, srv.made[metric_name] + 1) IN
         [srv |-> [srv EXCEPT !.metrics = FunSet(@, metric_name, inst),
                              !.made[metric_name] = @ + 1,
                              !.created[metric_name] = @ + 1],
          kind |-> "return", type |-> "", ret |-> inst]

\* _get_or_create_metric, lines 139-148; ok: pyiqa.create_metric succeeds
get_or_create_metric(srv, metric_name, ok) ==
    IF metric_name \in DOMAIN srv.metrics
    THEN [srv |-> srv, kind |-> "return", type |-> "", ret |-> srv.metrics[metric_name]]
    ELSE IF ~ok
    THEN [srv |-> srv, kind |-> "raise", type |-> "ServerError", ret |-> NoInstance]
    ELSE LET inst == Instance(metric_name, srv.made[metric_name] + 1) IN
         [srv |-> [srv EXCEPT !.metrics = FunSet(@, metric_name, inst),
                              !.made[metric_name] = @ + 1,
                              !.created[metric_name] = @ + 1],
          kind |-> "return", type |-> "", ret |-> inst]

\* startup, lines 47-52: the loop over the default metrics, from the first of
\* names on; failing: the names pyiqa.create_metric fails for
RECURSIVE startup(_, _, _)
startup(srv, names, failing) ==
    IF names = <<>>
    THEN [srv |-> srv, kind |-> "return", type |-> "", ret |-> NoInstance]
    ELSE LET r == get_or_create_metric(srv, Head(names), Head(names) \notin failing) IN
         IF r.kind = "raise"
         THEN [srv |-> r.srv, kind |-> "raise", type |-> "ServerError", ret |-> NoInstance]
         ELSE startup(r.srv, Tail(names), failing)

\* a mutant of shutdown: line 57 is left out
shutdown_keeps(srv) == srv

\* shutdown, line 57
shutdown(srv) == [srv EXCEPT !.metrics = <<>>, !.created = [n \in RegistryNames |-> 0]]

(***************************************************************************)
(* BaseIndicator of indicators/base.py, lines 14-63 and 106-110.           *)
(***************************************************************************)
\* calls of cleanup in one run
MaxCleanups == 2

NoIndicatorCall ==
    [op |-> "none", image_path |-> "", ref_path |-> NoneStr,
     kind |-> "return", type |-> "", invoked |-> "none"]

\* no indicator constructed yet
NewIndicator ==
    [name |-> "", iqa_metric |-> NoInstance, requires_ref |-> FALSE,
     is_initialized |-> FALSE, made |-> 0, cleanups |-> 0, last |-> NoIndicatorCall]

\* __init__, lines 21-27
BaseIndicator(metric_name) ==
    [NewIndicator EXCEPT !.name = metric_name,
                         !.requires_ref = metric_name \in SeqElems(get_fr_metrics),
                         !.last = [NoIndicatorCall EXCEPT !.op = "__init__"]]

IndicatorOutcome(self, kind, type, invoked) ==
    [self |-> self, kind |-> kind, type |-> type, invoked |-> invoked]

\* initialize, lines 31-33; ok: pyiqa.create_metric succeeds
initialize(self, ok) ==
    IF self.is_initialized THEN IndicatorOutcome(self, "return", "", "none")
    ELSE IF ~ok THEN IndicatorOutcome(self, "raise", "Exception", "none")
    ELSE IndicatorOutcome([self EXCEPT !.iqa_metric = Instance(self.name, self.made + 1),
                                       !.made = @ + 1,
                                       !.is_initialized = TRUE],
                          "return", "", "none")

\* compute, lines 46-63; create_ok: pyiqa.create_metric succeeds, metric_ok:
\* the metric instance gives a score. Calling None raises TypeError inside
\* the try block, which line 63 turns into RuntimeError
compute(self, ref_path, create_ok, metric_ok) ==
    LET i == initialize(self, create_ok) IN
    IF i.kind = "raise" THEN i
    ELSE IF i.self.requires_ref /\ ref_path = NoneStr
    THEN IndicatorOutcome(i.self, "raise", "ValueError", "none")
    ELSE IF i.self.iqa_metric = NoInstance
    THEN IndicatorOutcome(i.self, "raise", "RuntimeError", "missing")
    ELSE IF ~metric_ok
    THEN IndicatorOutcome(i.self, "raise", "RuntimeError", "instance")
    ELSE IndicatorOutcome(i.self, "return", "", "instance")

\* cleanup, lines 108-110
cleanup(self) == [self EXCEPT !.iqa_metric = NoInstance]

(***************************************************************************)
(* PerformanceMonitor on its own: _update_metrics, get_metrics and reset   *)
(* each run wholly inside "with self._lock:", so the calls of the three    *)
(* are serialised and one call is one step.                                *)
(***************************************************************************)
\* the names the handlers are tracked under: handlers.py lines 22, 114, 166
MonitorNames ==
    {"handle_assess_image_quality", "handle_batch_assessment", "handle_get_metric_info"}
\* the argument of get_metrics and of reset: a name, or None
MonitorQueryNames == MonitorNames \cup {NoneStr}
\* the durations the finally block of wrapped measures (seconds)
Durations == {0, 1, 3}
\* calls of _update_metrics made in one run
MaxUpdates == 3

NothingRecorded ==
    [since |-> [n \in MonitorNames |-> <<>>], op |-> "init", arg |-> NoneStr,
     got |-> <<>>, updates |-> 0, was_reset |-> {}]


NoAnswer == [op |-> "none", name |-> "", score |-> NoneScore, out |-> Returns(<<>>)]

(***************************************************************************)
(* The state after construction.                                           *)
(***************************************************************************)
Init ==
    /\ now = 0
    /\ maxsize \in 1..MaxSize
    /\ cache = <<>>
    /\ timestamps = <<>>
    /\ last = [op |-> "init", key |-> "", ret |-> None, purge |-> FALSE]
    /\ created = <<>>
    /\ run = EmptyRun
    /\ written = <<>>
    /\ seen = NothingSeen
    /\ call = IdleCall
    /\ batch = IdleBatch
    /\ resp = NoResp
    /\ nreq = 0
    /\ monitor_metrics = <<>>
    /\ heap = <<>>
    /\ monitor_lock = 0
    /\ cache_lock = 0
    /\ th = [t \in Threads |-> IdleThread]
    /\ snap = NoSnap
    /\ tracked = NothingTracked
    /\ recorded = NothingRecorded
    /\ answer = NoAnswer
    /\ server = NewServer
    /\ indicator = NewIndicator

\* time.time() advances
Tick ==
    /\ now + ClockStep <= MaxTime
    /\ now' = now + ClockStep
    /\ UNCHANGED <<cacheVars, histVars, handlerVars, monVars, svcVars>>

\* cache.put(key, value)
CachePut(key, value) ==
    LET r == put(cache, timestamps, maxsize, key, value, now) IN
    /\ cache' = r.cache
    /\ timestamps' = r.timestamps
    /\ last' = [op |-> "put", key |-> key, ret |-> None, purge |-> FALSE]
    /\ created' = CreatedAfter(r.cache, FunSet(created, key, now))
    /\ run' = IF /\ run.ok
                 /\ Len(run.puts) <= maxsize
                 /\ \A i \in 1..Len(run.puts) : run.puts[i].key # key
              THEN [run EXCEPT !.puts = Append(@, [key |-> key, value |-> value])]
              ELSE BrokenRun
    /\ written' = WrittenAfterPut(r.cache, written, key, value, now)
    /\ UNCHANGED <<now, maxsize, seen, handlerVars, monVars, svcVars>>

\* cache.get(key); the clock may advance between the two readings of get
CacheGet(key) ==
    \E t2 \in {now, now + ClockStep} :
      LET r == get(cache, timestamps, key, now, t2)
          isPurge == key \in DOMAIN cache /\ key \notin DOMAIN r.cache
      IN
      /\ t2 <= MaxTime
      /\ now' = t2
      /\ cache' = r.cache
      /\ timestamps' = r.timestamps
      /\ last' = [op |-> "get", key |-> key, ret |-> r.ret, purge |-> isPurge]
      /\ created' = CreatedAfter(r.cache, created)
      /\ run' = RunAfter(r.cache,
                   IF run.ok /\ Len(run.puts) = maxsize + 1 /\ ~isPurge
                   THEN run ELSE BrokenRun)
      /\ written' = written
      /\ UNCHANGED <<maxsize, seen, handlerVars, monVars, svcVars>>

\* cache.clear()
CacheClear ==
    /\ cache' = <<>>
    /\ timestamps' = <<>>
    /\ last' = [op |-> "clear", key |-> "", ret |-> None, purge |-> FALSE]
    /\ created' = <<>>
    /\ run' = EmptyRun
    /\ written' = WrittenAfterClear(written)
    /\ UNCHANGED <<now, maxsize, seen, handlerVars, monVars, svcVars>>

NextCache ==
    \/ Tick
    \/ \E key \in Keys, value \in Values : CachePut(key, value)
    \/ \E key \in Keys : CacheGet(key)
    \/ CacheClear

(***************************************************************************)
(* The handlers. handle_assess_image_quality never awaits, so the event    *)
(* loop runs one call at a time from its first line to its return; the     *)
(* clock may advance between two metrics of a call.                        *)
(***************************************************************************)
\* a call of handle_assess_image_quality(image_path, metrics, reference_path)
\* by the server: lines 39-66
HandleStart(image_path, metrics, reference_path) ==
    LET pro == Prologue(image_path, metrics, reference_path)
        req == [image_path |-> image_path, metrics |-> metrics,
                reference_path |-> reference_path]
    IN
    /\ call.pc = "idle"
    /\ batch.pc = "idle"
    /\ nreq < MaxRequests
    /\ nreq' = nreq + 1
    /\ IF pro.raised
       THEN /\ call' = IdleCall
            /\ resp' = Resp("exception", <<>>, pro.type, pro.msg, req, {}, {}, <<>>, <<>>)
       ELSE /\ call' = StartedCall(0, image_path, metrics, reference_path, pro)
            /\ resp' = NoResp
    /\ UNCHANGED <<now, cacheVars, last, created, run, written, batch, monVars, svcVars>>

AssessStart(image_path, metrics, reference_path) ==
    HandleStart(image_path, metrics, reference_path) /\ UNCHANGED seen

\* the same call, with the history of the first request kept
RepeatStart(image_path, metrics, reference_path) ==
    /\ HandleStart(image_path, metrics, reference_path)
    /\ seen' = IF resp'.kind = "exception" THEN [seen EXCEPT !.tret = now]
               ELSE IF nreq = 0 THEN [seen EXCEPT !.t0 = now]
               ELSE seen

\* one iteration of the loops of lines 69-102 for the next metric
HandleMetric ==
    /\ call.pc = "loop"
    /\ call.todo # <<>>
    /\ LET item == Head(call.todo)
           key == cache_key(item.kind, item.name, call.image_path, call.reference_path)
           g == get(cache, timestamps, key, now, now)
           isPurge == key \in DOMAIN cache /\ key \notin DOMAIN g.cache
           score == metric_score(item.name, call.image_path,
                                 IF item.kind = "fr" THEN call.reference_path ELSE NoneStr)
           p == put(g.cache, g.timestamps, maxsize, key, score, now)
       IN
       \/ /\ g.ret # None
          /\ call' = [call EXCEPT !.todo = Tail(@),
                                  !.results = DictSet(@, item.name, g.ret)]
          /\ cache' = g.cache
          /\ timestamps' = g.timestamps
          /\ last' = [op |-> "get", key |-> key, ret |-> g.ret, purge |-> FALSE]
          /\ created' = created
          /\ run' = BrokenRun
          /\ written' = written
       \/ /\ g.ret = None
          /\ call' = [call EXCEPT !.todo = Tail(@),
                                  !.results = DictSet(@, item.name, score),
                                  !.pok = @ \cup {item.name}]
          /\ cache' = p.cache
          /\ timestamps' = p.timestamps
          /\ last' = [op |-> "put", key |-> key, ret |-> None, purge |-> FALSE]
          /\ created' = CreatedAfter(p.cache, FunSet(created, key, now))
          /\ run' = BrokenRun
          /\ written' = WrittenAfterPut(p.cache, written, key, score, now)
       \/ /\ g.ret = None
          /\ call' = FailedMetric(call, item.name)
          /\ cache' = cache_after_failure(g, maxsize, key, now).cache
          /\ timestamps' = cache_after_failure(g, maxsize, key, now).timestamps
          /\ last' = [op |-> "get", key |-> key, ret |-> None, purge |-> isPurge]
          /\ created' = CreatedAfter(g.cache, created)
          /\ run' = RunAfter(g.cache, BrokenRun)
          /\ written' = written
    /\ UNCHANGED <<now, maxsize, batch, resp, nreq, monVars, svcVars>>

MetricStep == HandleMetric /\ UNCHANGED seen

\* the same iteration; the history keeps whether every put found room, that
\* is, whether no put removed a key
RepeatStep ==
    /\ HandleMetric
    /\ seen' = [seen EXCEPT !.roomy =
                   @ /\ ~(last'.op = "put" /\ (DOMAIN cache) \ (DOMAIN cache') # {})]

\* lines 103-112: the call returns, to the server or to process_single_image
HandleReturn ==
    /\ call.pc = "loop"
    /\ call.todo = <<>>
    /\ LET r == Response(call.image_path, call.reference_path, call.results, call.errors)
           req == [image_path |-> call.image_path, metrics |-> call.metrics,
                   reference_path |-> call.reference_path]
       IN
       IF call.owner = 0
       THEN /\ resp' = Resp("response", r, "", "", req, call.pok, call.pfail, <<>>, <<>>)
            /\ batch' = batch
       ELSE /\ batch' = [batch EXCEPT
                           !.slots[call.owner] = Slot("response", r, call.pok, call.pfail),
                           !.order = Append(@, call.owner)]
            /\ resp' = resp
    /\ call' = IdleCall
    /\ UNCHANGED <<now, cacheVars, last, created, run, written, nreq, monVars, svcVars>>

AssessReturn == HandleReturn /\ UNCHANGED seen

\* the same return; the history keeps the answer of the first request
RepeatReturn ==
    /\ HandleReturn
    /\ seen' = [seen EXCEPT !.tret = now,
                            !.first = IF nreq = 1 THEN resp' ELSE @]

\* a call of handle_batch_assessment, the first request of the server:
\* lines 131-135 and the creation of the tasks, line 161
BatchStart(image_paths, metrics, reference_paths) ==
    LET req == [image_path |-> image_paths, metrics |-> metrics,
                reference_path |-> reference_paths]
    IN
    /\ call.pc = "idle"
    /\ batch.pc = "idle"
    /\ resp = NoResp
    /\ IF TruthyList(reference_paths) /\ Len(reference_paths) # Len(image_paths)
       THEN /\ batch' = IdleBatch
            /\ resp' = Resp("exception", <<>>, "InvalidInputError",
                            "Number of reference images must match number of test images",
                            req, {}, {}, <<>>, <<>>)
       ELSE /\ batch' = [pc |-> "running", image_paths |-> image_paths,
                         reference_paths |-> reference_paths, metrics |-> metrics,
                         slots |-> [i \in 1..Len(image_paths) |-> Pending],
                         order |-> <<>>]
            /\ resp' = NoResp
    /\ UNCHANGED <<now, cacheVars, histVars, call, nreq, monVars, svcVars>>

\* a mutant of UnitStart: the task is suspended inside its call, and the
\* event loop is free to run another task
UnitStartSuspends(idx) ==
    /\ batch.pc = "running"
    /\ call.pc = "idle"
    /\ idx \in 1..Len(batch.slots)
    /\ batch.slots[idx].kind = "pending"
    /\ batch' = [batch EXCEPT !.slots[idx] = Running]
    /\ UNCHANGED <<now, cacheVars, histVars, call, resp, nreq, monVars, svcVars>>

\* the event loop runs the task process_single_image(idx): lines 137-147,
\* and lines 148-158 when the call raises; nothing in the call awaits, so
\* the task runs to its return before the event loop runs another
UnitStart(idx) ==
    /\ batch.pc = "running"
    /\ call.pc = "idle"
    /\ idx \in 1..Len(batch.slots)
    /\ batch.slots[idx].kind = "pending"
    /\ LET image_path == batch.image_paths[idx]
           reference_path == UnitReference(batch.reference_paths, idx)
           pro == Prologue(image_path, batch.metrics, reference_path)
       IN
       IF pro.raised
       THEN /\ batch' = [batch EXCEPT
                           !.slots[idx] = Slot("error",
                               AssessmentError(image_path, reference_path, pro.msg), {}, {}),
                           !.order = Append(@, idx)]
            /\ call' = IdleCall
       ELSE /\ call' = StartedCall(idx, image_path, batch.metrics, reference_path, pro)
            /\ batch' = [batch EXCEPT !.slots[idx] = Running]
    /\ UNCHANGED <<now, cacheVars, histVars, resp, nreq, monVars, svcVars>>

\* lines 162-164: every task is done, gather gives the list
BatchReturn ==
    /\ batch.pc = "running"
    /\ call.pc = "idle"
    /\ \A i \in 1..Len(batch.slots) : batch.slots[i].kind # "pending"
    /\ resp' = Resp("batch", gather(batch.slots, batch.order), "", "",
                    [image_path |-> batch.image_paths, metrics |-> batch.metrics,
                     reference_path |-> batch.reference_paths],
                    {}, {}, batch.slots, batch.order)
    /\ batch' = IdleBatch
    /\ UNCHANGED <<now, cacheVars, histVars, call, nreq, monVars, svcVars>>

NextAssess ==
    \/ Tick
    \/ \E image_path \in ImagePaths, metrics \in MetricLists,
          reference_path \in ReferencePaths :
            AssessStart(image_path, metrics, reference_path)
    \/ MetricStep
    \/ AssessReturn

NextBatch ==
    \/ Tick
    \/ \E image_paths \in BatchImageLists, metrics \in BatchMetricLists,
          reference_paths \in BatchReferenceLists :
            BatchStart(image_paths, metrics, reference_paths)
    \/ \E idx \in 1..MaxBatch : UnitStart(idx)
    \/ MetricStep
    \/ AssessReturn
    \/ BatchReturn

\* the inputs of the repeated requests
RepeatMetricLists == {<<"niqe", "brisque">>, <<"psnr", "niqe">>}
RepeatReferencePaths == {NoneStr, "r.png"}

(***************************************************************************)
(* A tracked call, thread by thread: wrapped of PerformanceMonitor.track   *)
(* around handle_assess_image_quality for one no-reference metric, at the  *)
(* grain of the locks. The histories of the cache claims are not kept here.*)
(***************************************************************************)
\* the caller calls the decorated function as it would call the function
\* itself: a coroutine function is awaited (line 36 runs), a plain function
\* is called, and the call of the async wrapped gives a coroutine object
TrackCall(t, func_name, arg) ==
    /\ th[t].pc = "idle"
    /\ tracked.calls < MaxCalls
    /\ IF iscoroutinefunction(func_name)
       THEN /\ th' = [th EXCEPT ![t] =
                        [IdleThread EXCEPT !.pc = "start", !.func_name = func_name,
                                           !.arg = arg, !.start_time = now,
                                           !.clean = th[t].clean]]
            /\ tracked' = [tracked EXCEPT !.calls = @ + 1]
       ELSE /\ th' = [th EXCEPT ![t] =
                        Returned([th[t] EXCEPT !.func_name = func_name],
                                 Coroutine, Value("42", None))]
            /\ tracked' = [tracked EXCEPT !.calls = @ + 1,
                                          !.returned[func_name] = @ + 1]
    /\ UNCHANGED <<now, cacheVars, histVars, handlerVars, svcVars,
                   monitor_metrics, heap, monitor_lock, cache_lock, snap>>

\* handlers.py lines 40-42 and 72-73: validation, then cache.get up to the
\* end of its with block
FuncEnter(t) ==
    /\ th[t].pc = "start"
    /\ LET g == get(cache, timestamps, TrackedKey(th[t].arg), now, now) IN
       \/ /\ ~validate_image_path(th[t].arg).is_valid
          /\ th' = [th EXCEPT ![t].pc = "finally",
                              ![t].result = Exception("InvalidInputError")]
          /\ UNCHANGED <<cache, timestamps, cache_lock>>
       \/ /\ validate_image_path(th[t].arg).is_valid
          /\ cache_lock = 0
          /\ cache_lock' = t
          /\ cache' = g.cache
          /\ timestamps' = g.timestamps
          /\ th' = [th EXCEPT ![t].pc = "get", ![t].ret = g.ret]
    /\ UNCHANGED <<now, maxsize, histVars, handlerVars, svcVars,
                   monitor_metrics, heap, monitor_lock, snap, tracked>>

\* cache.get returns: lines 74-76
FuncGetExit(t) ==
    /\ th[t].pc = "get"
    /\ cache_lock' = with_exit(cache_lock, t)
    /\ th' = IF th[t].ret # None
             THEN [th EXCEPT ![t].pc = "finally",
                             ![t].result = Value("scores", th[t].ret)]
             ELSE [th EXCEPT ![t].pc = "miss"]
    /\ UNCHANGED <<now, cacheVars, histVars, handlerVars, svcVars,
                   monitor_metrics, heap, monitor_lock, snap, tracked>>

\* lines 79-81 and 84-85: the provider is invoked; it takes time, and it
\* gives a score or fails, the failure being recorded by the handler
FuncProvider(t) ==
    /\ th[t].pc = "miss"
    /\ \E d \in {0, ClockStep}, ok \in BOOLEAN :
          /\ now + d <= MaxTime
          /\ now' = now + d
          /\ th' = [th EXCEPT
                      ![t].clean = @ /\ cache_lock # t /\ monitor_lock # t,
                      ![t].pc = IF ok THEN "computed" ELSE "finally",
                      ![t].score = IF ok THEN metric_score("niqe", th[t].arg, NoneStr)
                                   ELSE None,
                      ![t].result = IF ok THEN NoResult ELSE Value("errors", None)]
    /\ UNCHANGED <<cacheVars, histVars, handlerVars, svcVars,
                   monitor_metrics, heap, monitor_lock, cache_lock, snap, tracked>>

\* line 82: cache.put up to the end of its with block
FuncPut(t) ==
    /\ th[t].pc = "computed"
    /\ cache_lock = 0
    /\ cache_lock' = t
    /\ LET p == put(cache, timestamps, maxsize, TrackedKey(th[t].arg), th[t].score, now) IN
          /\ cache' = p.cache
          /\ timestamps' = p.timestamps
    /\ th' = [th EXCEPT ![t].pc = "put"]
    /\ UNCHANGED <<now, maxsize, histVars, handlerVars, svcVars,
                   monitor_metrics, heap, monitor_lock, snap, tracked>>

\* cache.put returns, and the handler returns its response
FuncPutExit(t) ==
    /\ th[t].pc = "put"
    /\ cache_lock' = with_exit(cache_lock, t)
    /\ th' = [th EXCEPT ![t].pc = "finally",
                        ![t].result = Value("scores", th[t].score)]
    /\ UNCHANGED <<now, cacheVars, histVars, handlerVars, svcVars,
                   monitor_metrics, heap, monitor_lock, snap, tracked>>

\* performance.py lines 43-44 and 51-62: the finally block computes the
\* duration and calls _update_metrics, which takes the lock, makes the dict
\* of a new function and reads count
UpdateEnter(t) ==
    /\ th[t].pc = "finally"
    /\ monitor_lock = 0
    /\ monitor_lock' = t
    /\ LET name == th[t].func_name
           isNew == name \notin DOMAIN monitor_metrics
           h == IF isNew THEN Append(heap, NewStats) ELSE heap
           mm == IF isNew THEN FunSet(monitor_metrics, name, Len(heap) + 1)
                 ELSE monitor_metrics
       IN /\ heap' = h
          /\ monitor_metrics' = mm
          /\ th' = [th EXCEPT ![t].pc = "update",
                              ![t].duration = now - th[t].start_time,
                              ![t].count = h[mm[name]].count,
                              ![t].unwrapped = th[t].result]
    /\ UNCHANGED <<now, cacheVars, histVars, handlerVars, svcVars, cache_lock, snap, tracked>>

\* lines 62-66: the statistics are stored
UpdateBody(t) ==
    /\ th[t].pc = "update"
    /\ LET ref == monitor_metrics[th[t].func_name] IN
          heap' = [heap EXCEPT ![ref] = update_stats(heap[ref], th[t].count, th[t].duration)]
    /\ th' = [th EXCEPT ![t].pc = "updated"]
    /\ UNCHANGED <<now, cacheVars, histVars, handlerVars, svcVars,
                   monitor_metrics, monitor_lock, cache_lock, snap, tracked>>

\* the end of the with block of _update_metrics
UpdateExit(t) ==
    /\ th[t].pc = "updated"
    /\ monitor_lock' = with_exit(monitor_lock, t)
    /\ th' = [th EXCEPT ![t].pc = "return"]
    /\ UNCHANGED <<now, cacheVars, histVars, handlerVars, svcVars,
                   monitor_metrics, heap, cache_lock, snap, tracked>>

\* line 45, or the exception leaving the finally block: the caller has the
\* outcome of the function
TrackReturn(t) ==
    /\ th[t].pc = "return"
    /\ th' = [th EXCEPT ![t] = Returned(th[t], th[t].result, th[t].unwrapped)]
    /\ tracked' = [tracked EXCEPT !.returned[th[t].func_name] =
                                     IF th[t].stale THEN @ ELSE @ + 1]
    /\ UNCHANGED <<now, cacheVars, histVars, handlerVars, svcVars,
                   monitor_metrics, heap, monitor_lock, cache_lock, snap>>

\* get_metrics(func_name) or reset(func_name) takes the lock: lines 70, 77
QueryEnter(t, query, func_name) ==
    /\ th[t].pc = "idle"
    /\ tracked.queries < MaxQueries
    /\ monitor_lock = 0
    /\ monitor_lock' = t
    /\ th' = [th EXCEPT ![t] = [IdleThread EXCEPT !.pc = query, !.arg = func_name,
                                                  !.clean = th[t].clean]]
    /\ tracked' = [tracked EXCEPT !.queries = @ + 1]
    /\ UNCHANGED <<now, cacheVars, histVars, handlerVars, svcVars,
                   monitor_metrics, heap, cache_lock, snap>>

\* lines 71-73: get_metrics returns
GetMetricsExit(t) ==
    /\ th[t].pc = "get_metrics"
    /\ monitor_lock' = with_exit(monitor_lock, t)
    /\ LET refs == get_metrics(monitor_metrics, th[t].arg) IN
          snap' = [kind |-> IF Truthy(th[t].arg) THEN "one" ELSE "all",
                   func_name |-> th[t].arg,
                   refs |-> refs,
                   copy |-> Deref(refs, heap)]
    /\ th' = [th EXCEPT ![t] = Returned(th[t], NoResult, NoResult)]
    /\ UNCHANGED <<now, cacheVars, histVars, handlerVars, svcVars,
                   monitor_metrics, heap, cache_lock, tracked>>

\* lines 78-81: reset returns; a call that has stored its statistics and
\* not returned yet is no longer one of the calls counted since the reset
ResetExit(t) ==
    /\ th[t].pc = "reset"
    /\ monitor_lock' = with_exit(monitor_lock, t)
    /\ monitor_metrics' = reset(monitor_metrics, th[t].arg)
    /\ LET hit(n) == ~Truthy(th[t].arg) \/ n = th[t].arg IN
          /\ tracked' = [tracked EXCEPT !.returned =
                            [n \in TrackedNames |-> IF hit(n) THEN 0 ELSE @[n]]]
          /\ th' = [u \in Threads |->
                      IF u = t THEN Returned(th[t], NoResult, NoResult)
                      ELSE IF th[u].pc = "return" /\ hit(th[u].func_name)
                      THEN [th[u] EXCEPT !.stale = TRUE]
                      ELSE th[u]]
    /\ UNCHANGED <<now, cacheVars, histVars, handlerVars, svcVars, heap, cache_lock, snap>>

\* cache.clear() takes the lock: line 122
ClearEnter(t) ==
    /\ th[t].pc = "idle"
    /\ tracked.queries < MaxQueries
    /\ cache_lock = 0
    /\ cache_lock' = t
    /\ th' = [th EXCEPT ![t] = [IdleThread EXCEPT !.pc = "clear", !.clean = th[t].clean]]
    /\ tracked' = [tracked EXCEPT !.queries = @ + 1]
    /\ UNCHANGED <<now, cacheVars, histVars, handlerVars, svcVars,
                   monitor_metrics, heap, monitor_lock, snap>>

\* lines 123-124: both dicts are emptied, clear returns
ClearExit(t) ==
    /\ th[t].pc = "clear"
    /\ cache_lock' = with_exit(cache_lock, t)
    /\ cache' = <<>>
    /\ timestamps' = <<>>
    /\ th' = [th EXCEPT ![t] = Returned(th[t], NoResult, NoResult)]
    /\ UNCHANGED <<now, maxsize, histVars, handlerVars, svcVars,
                   monitor_metrics, heap, monitor_lock, snap, tracked>>

NextThreads ==
    \E t \in Threads :
        \/ \E func_name \in TrackedNames : \E arg \in TrackedArgs(func_name) :
              TrackCall(t, func_name, arg)
        \/ FuncEnter(t)
        \/ FuncGetExit(t)
        \/ FuncProvider(t)
        \/ FuncPut(t)
        \/ FuncPutExit(t)
        \/ UpdateEnter(t)
        \/ UpdateBody(t)
        \/ UpdateExit(t)
        \/ TrackReturn(t)
        \/ \E query \in {"get_metrics", "reset"}, func_name \in QueryNames :
              QueryEnter(t, query, func_name)
        \/ GetMetricsExit(t)
        \/ ResetExit(t)
        \/ ClearEnter(t)
        \/ ClearExit(t)

(***************************************************************************)
(* The three methods of PerformanceMonitor, one call a step.               *)
(***************************************************************************)
\* _update_metrics(func_name, duration), lines 51-66, as the finally block
\* of wrapped calls it when an awaited tracked coroutine function is done
UpdateMetrics(func_name, duration) ==
    /\ recorded.updates < MaxUpdates
    /\ LET isNew == func_name \notin DOMAIN monitor_metrics
           h == IF isNew THEN Append(heap, NewStats) ELSE heap
           mm == IF isNew THEN FunSet(monitor_metrics, func_name, Len(heap) + 1)
                 ELSE monitor_metrics
           ref == mm[func_name]
       IN /\ monitor_metrics' = mm
          /\ heap' = [h EXCEPT ![ref] = update_stats(h[ref], h[ref].count, duration)]
    /\ recorded' = [recorded EXCEPT !.since[func_name] = Append(@, duration),
                                    !.op = "update", !.arg = func_name,
                                    !.got = <<>>, !.updates = @ + 1]
    /\ UNCHANGED <<now, cacheVars, histVars, handlerVars, monitor_lock, cache_lock,
                   th, snap, tracked, answer, server, indicator>>

\* get_metrics(func_name), lines 70-73; got is what the caller reads from
\* the value returned, at the return
MonitorGetMetrics(func_name) ==
    /\ recorded' = [recorded EXCEPT
                       !.op = "get_metrics", !.arg = func_name,
                       !.got = Deref(get_metrics(monitor_metrics, func_name), heap)]
    /\ UNCHANGED <<now, cacheVars, histVars, handlerVars, monVars,
                   answer, server, indicator>>

\* reset(func_name), lines 77-81
MonitorReset(func_name) ==
    /\ monitor_metrics' = reset(monitor_metrics, func_name)
    /\ LET hit(n) == ~Truthy(func_name) \/ n = func_name IN
          recorded' = [recorded EXCEPT
                          !.since = [n \in MonitorNames |-> IF hit(n) THEN <<>> ELSE @[n]],
                          !.op = "reset", !.arg = func_name, !.got = <<>>,
                          !.was_reset = @ \cup {n \in DOMAIN monitor_metrics : hit(n)}]
    /\ UNCHANGED <<now, cacheVars, histVars, handlerVars, heap, monitor_lock,
                   cache_lock, th, snap, tracked, answer, server, indicator>>

NextMonitor ==
    \/ \E func_name \in MonitorNames, duration \in Durations :
          UpdateMetrics(func_name, duration)
    \/ \E func_name \in MonitorQueryNames : MonitorGetMetrics(func_name)
    \/ \E func_name \in MonitorQueryNames : MonitorReset(func_name)

(***************************************************************************)
(* The pure functions, applied to an input: answer holds the call and its  *)
(* outcome.                                                                *)
(***************************************************************************)
\* indicators/interpretations.py: get_interpretation(metric_name, score)
GetInterpretation(metric_name, score) ==
    /\ answer' = [op |-> "get_interpretation", name |-> metric_name, score |-> score,
                  out |-> get_interpretation(metric_name, score)]
    /\ UNCHANGED <<now, cacheVars, histVars, handlerVars, monVars,
                   recorded, server, indicator>>

\* IQAServer.handle_tool_call for the tool get_metric_interpretation
ToolCallInterpretation(metric_name, score) ==
    /\ answer' = [op |-> "get_metric_interpretation", name |-> metric_name, score |-> score,
                  out |-> get_metric_interpretation(metric_name, score)]
    /\ UNCHANGED <<now, cacheVars, histVars, handlerVars, monVars,
                   recorded, server, indicator>>

\* utils/validation.py: validate_image_path(path)
ValidateImagePath(path) ==
    /\ answer' = [op |-> "validate_image_path", name |-> path, score |-> NoneScore,
                  out |-> Returns(validate_image_path(path))]
    /\ UNCHANGED <<now, cacheVars, histVars, handlerVars, monVars,
                   recorded, server, indicator>>

NextAnswers ==
    \/ \E metric_name \in InterpretedNames, score \in OptionalScores :
          GetInterpretation(metric_name, score)
    \/ \E metric_name \in InterpretedNames, score \in OptionalScores :
          ToolCallInterpretation(metric_name, score)
    \/ \E path \in {"a.png", "x.png", "c.txt", "B.PNG", "w.webp"} \cup MissingPaths :
          ValidateImagePath(path)

(***************************************************************************)
(* The lifecycle of IQAServer. Its coroutines hold no await that suspends, *)
(* so a call of startup, shutdown or _get_or_create_metric is one step.    *)
(***************************************************************************)
ServerCalled(r, op, name) ==
    [r.srv EXCEPT !.last = [op |-> op, name |-> name, kind |-> r.kind, type |-> r.type,
                            ret |-> r.ret, before |-> server.metrics]]

\* await server.startup()
ServerStartup(failing) ==
    /\ server' = ServerCalled(startup(server, DEFAULT_FR_METRICS \o DEFAULT_NR_METRICS,
                                      failing), "startup", "")
    /\ UNCHANGED <<now, cacheVars, histVars, handlerVars, monVars,
                   recorded, answer, indicator>>

\* await server._get_or_create_metric(metric_name)
GetOrCreateMetric(metric_name, ok) ==
    /\ server' = ServerCalled(get_or_create_metric(server, metric_name, ok),
                              "_get_or_create_metric", metric_name)
    /\ UNCHANGED <<now, cacheVars, histVars, handlerVars, monVars,
                   recorded, answer, indicator>>

\* await server.shutdown()
ServerShutdown ==
    /\ server.shutdowns < MaxShutdowns
    /\ server' = [ServerCalled([srv |-> shutdown(server), kind |-> "return", type |-> "",
                                ret |-> NoInstance], "shutdown", "")
                    EXCEPT !.shutdowns = @ + 1]
    /\ UNCHANGED <<now, cacheVars, histVars, handlerVars, monVars,
                   recorded, answer, indicator>>

\* the tool calls between startup and shutdown are those of
\* get_metric_interpretation, which handle_tool_call answers itself
NextServer ==
    \/ \E failing \in {{}, {"psnr"}, {"brisque"}} : ServerStartup(failing)
    \/ \E metric_name \in RequestedNames, ok \in BOOLEAN : GetOrCreateMetric(metric_name, ok)
    \/ ServerShutdown
    \/ \E score \in {<<20>>, <<101>>} : ToolCallInterpretation("brisque", score)

(***************************************************************************)
(* The calls on one indicator; its coroutines hold no await that suspends. *)
(***************************************************************************)
IndicatorCalled(r, op, image_path, ref_path) ==
    [r.self EXCEPT !.last = [op |-> op, image_path |-> image_path, ref_path |-> ref_path,
                             kind |-> r.kind, type |-> r.type, invoked |-> r.invoked]]

\* indicator = BaseIndicator(metric_name)
IndicatorNew(metric_name) ==
    /\ indicator.name = ""
    /\ indicator' = BaseIndicator(metric_name)
    /\ UNCHANGED <<now, cacheVars, histVars, handlerVars, monVars,
                   recorded, answer, server>>

\* await indicator.initialize()
IndicatorInitialize(ok) ==
    /\ indicator.name # ""
    /\ indicator' = IndicatorCalled(initialize(indicator, ok), "initialize", "", NoneStr)
    /\ UNCHANGED <<now, cacheVars, histVars, handlerVars, monVars,
                   recorded, answer, server>>

\* await indicator.compute(image_path, ref_path)
IndicatorCompute(image_path, ref_path, create_ok, metric_ok) ==
    /\ indicator.name # ""
    /\ indicator' = IndicatorCalled(compute(indicator, ref_path, create_ok, metric_ok),
                                    "compute", image_path, ref_path)
    /\ UNCHANGED <<now, cacheVars, histVars, handlerVars, monVars,
                   recorded, answer, server>>

\* await indicator.cleanup()
IndicatorCleanup ==
    /\ indicator.name # ""
    /\ indicator.cleanups < MaxCleanups
    /\ indicator' = [IndicatorCalled(IndicatorOutcome(cleanup(indicator), "return", "", "none"),
                                     "cleanup", "", NoneStr)
                       EXCEPT !.cleanups = @ + 1]
    /\ UNCHANGED <<now, cacheVars, histVars, handlerVars, monVars,
                   recorded, answer, server>>

NextIndicator ==
    \* one metric that requires a reference and two that do not
    \/ \E metric_name \in {"psnr", "niqe", "brisque"} : IndicatorNew(metric_name)
    \/ \E ok \in BOOLEAN : IndicatorInitialize(ok)
    \/ \E image_path \in {"a.png", "x.png"}, ref_path \in {NoneStr, "r.png"},
          create_ok \in BOOLEAN, metric_ok \in BOOLEAN :
             IndicatorCompute(image_path, ref_path, create_ok, metric_ok)
    \/ IndicatorCleanup

\* the inputs of the requests whose paths hold the separator of the cache key
KeyImagePaths == {"a.png", "a.png:b.png"}
KeyReferencePaths == {NoneStr, "c.png", "b.png:c.png"}
KeyMetricLists == {<<"psnr">>, <<"niqe">>}

NextKeys ==
    \/ Tick
    \/ \E image_path \in KeyImagePaths, metrics \in KeyMetricLists,
          reference_path \in KeyReferencePaths :
            AssessStart(image_path, metrics, reference_path)
    \/ MetricStep
    \/ AssessReturn

NextRepeat ==
    \/ Tick
    \/ \E metrics \in RepeatMetricLists, reference_path \in RepeatReferencePaths :
            RepeatStart("a.png", metrics, reference_path)
    \/ RepeatStep
    \/ RepeatReturn

vars == <<now, cacheVars, histVars, handlerVars, monVars, svcVars>>

SpecCache == Init /\ [][NextCache]_vars

SpecAssess == Init /\ [][NextAssess]_vars

SpecBatch == Init /\ [][NextBatch]_vars

SpecRepeat == Init /\ [][NextRepeat]_vars

SpecKeys == Init /\ [][NextKeys]_vars

\* the threads share the global cache, cache = LRUCache(): one maxsize
InitThreads == Init /\ maxsize = MaxSize

SpecThreads == InitThreads /\ [][NextThreads]_vars

\* monitor = PerformanceMonitor(), beside the one global cache
InitMonitor == Init /\ maxsize = MaxSize

SpecMonitor == InitMonitor /\ [][NextMonitor]_vars

SpecAnswers == InitMonitor /\ [][NextAnswers]_vars

SpecServer == InitMonitor /\ [][NextServer]_vars

SpecIndicator == InitMonitor /\ [][NextIndicator]_vars

(***************************************************************************)
(* Claims about LRUCache, checked under SpecCache.                         *)
(***************************************************************************)
StoredKeys == DOMAIN cache

Full == Cardinality(StoredKeys) >= maxsize

\* the run of puts since the cache was empty: maxsize+1 pairwise distinct
\* keys, no get before the last of them
RunDistinct ==
    /\ run.ok
    /\ Len(run.puts) = maxsize + 1
    /\ Cardinality({run.puts[i].key : i \in 1..Len(run.puts)}) = maxsize + 1

\* C1: the number of stored entries never exceeds maxsize (the two dicts
\* hold the same keys), and a put made while the cache is full removes one
\* entry whose timestamp is the smallest of all stored timestamps before it
\* stores its own.
C1_SizeBound ==
    /\ Cardinality(StoredKeys) <= maxsize
    /\ DictKeys(timestamps) = StoredKeys
    /\ Len(timestamps) = Cardinality(StoredKeys)

C1_PutEvictsLeastRecent ==
    \A key \in Keys, value \in Values :
        (CachePut(key, value) /\ Full) =>
            \E e \in StoredKeys :
                /\ \A k \in StoredKeys : DictGet(timestamps, e) <= DictGet(timestamps, k)
                /\ DOMAIN cache' = (StoredKeys \ {e}) \cup {key}

C1_Bounded == [](C1_SizeBound) /\ [][C1_PutEvictsLeastRecent]_vars

\* C1 witness: a put of a new key was made on a full cache
C1_Witness == RunDistinct /\ last.op = "put" /\ Cardinality(StoredKeys) = maxsize

\* C7 (as claimed): a get made later than the creation time of the entry
\* plus the TTL returns absent, whatever happened to the entry in between.
C7_AbsoluteTtl ==
    [][\A key \in Keys :
          (CacheGet(key) /\ key \in DOMAIN created
              /\ now > created[key] + CACHE_TIMEOUT) => last'.ret = None]_vars

\* C8: a get that finds the entry older than the TTL returns absent and
\* removes value and timestamp in the same call; a get of a key that is not
\* stored returns absent and stores nothing; only put(k, v) stores k again.
C8_ExpiredGet ==
    \A key \in Keys :
        (CacheGet(key) /\ key \in StoredKeys
            /\ now - DictGet(timestamps, key) > CACHE_TIMEOUT) =>
                /\ last'.ret = None
                /\ key \notin DOMAIN cache'
                /\ key \notin DictKeys(timestamps')

C8_AbsentGet ==
    \A key \in Keys :
        (CacheGet(key) /\ key \notin StoredKeys) =>
            (last'.ret = None /\ key \notin DOMAIN cache')

C8_OnlyPutStores ==
    \A key \in Keys :
        (key \notin StoredKeys /\ key \in DOMAIN cache') =>
            (last'.op = "put" /\ last'.key = key)

C8_ExpiredPurged ==
    [][C8_ExpiredGet /\ C8_AbsentGet /\ C8_OnlyPutStores]_vars

\* C8 witness: the last operation was a get that found its entry expired
C8_Witness ==
    /\ last.op = "get"
    /\ last.purge
    /\ last.ret = None
    /\ last.key \notin StoredKeys

\* C9: after maxsize+1 puts of pairwise distinct keys into an empty cache
\* with no get in between, get of the first key returns absent and get of
\* every other key, made within the TTL of its put, returns the value put.
C9_FirstInsertedEvicted ==
    RunDistinct =>
        /\ get(cache, timestamps, run.puts[1].key, now, now).ret = None
        /\ \A i \in 2..(maxsize + 1) :
              LET k == run.puts[i].key IN
              /\ k \in StoredKeys
              /\ (now - created[k] <= CACHE_TIMEOUT) =>
                    get(cache, timestamps, k, now, now).ret = run.puts[i].value

\* C9 witness: the run was made with every put at the same clock reading
\* and a later get returned the value of a key of the run
C9_Witness ==
    /\ RunDistinct
    /\ last.op = "get"
    /\ last.ret # None
    /\ \A k \in StoredKeys : created[k] = 0

\* C10 (as claimed): the put of a new key into a full cache with two or
\* more entries, right after a successful get(k), does not evict k.
C10_GetProtectsKey ==
    [][\A key \in Keys, value \in Values :
          (CachePut(key, value) /\ key \notin StoredKeys /\ Full
              /\ Cardinality(StoredKeys) >= 2
              /\ last.op = "get" /\ last.ret # None) =>
                  last.key \in DOMAIN cache']_vars

\* C11: a get of a key returns the value of the latest put of that key when
\* no more than the TTL has passed since that put and no later put evicted
\* the key and no clear was made since; a get of a key that was never put
\* returns absent.
C11_GetAfterPut ==
    \A key \in Keys :
        CacheGet(key) =>
            IF key \notin DOMAIN written
            THEN last'.ret = None
            ELSE (written[key].live /\ now - written[key].t <= CACHE_TIMEOUT) =>
                    last'.ret = written[key].val

C11_PutThenGet == [][C11_GetAfterPut]_vars

\* C11 witness: a key was put after the clock had advanced, and a get of
\* it made exactly one TTL after that put returned the value put
C11_Witness ==
    /\ last.op = "get"
    /\ last.key \in DOMAIN written
    /\ written[last.key].live
    /\ written[last.key].t = ClockStep
    /\ now = written[last.key].t + CACHE_TIMEOUT
    /\ last.ret = written[last.key].val
    /\ last.ret # None

(***************************************************************************)
(* Claims about handle_assess_image_quality, checked under SpecAssess.     *)
(***************************************************************************)
\* the metric names a request asks for (the defaults when it names none)
Requested(req) ==
    IF req.metrics = NoneList
    THEN (IF Truthy(req.reference_path) THEN SeqElems(get_fr_metrics)
                                        ELSE SeqElems(get_nr_metrics))
    ELSE SeqElems(req.metrics)

NamesFr(req) == Requested(req) \cap SeqElems(get_fr_metrics) # {}

\* C3: within one single-image assessment, a metric whose provider call
\* failed is in the errors map under its name, the failure does not end the
\* call (it goes on with its loops and returns a response), and every
\* metric whose provider call succeeded is in the scores map with the score
\* the provider gave.
C3_ProviderFailureIsolated ==
    /\ call.pfail # {} => call.pc = "loop"
    /\ call.pfail \subseteq DictKeys(call.errors)
    /\ call.pok \subseteq DictKeys(call.results)
    /\ resp.pfail # {} => resp.kind = "response"
    /\ resp.kind = "response" =>
          /\ resp.pfail \subseteq DictKeys(resp.value.errors)
          /\ \A m \in resp.pok :
                /\ m \in DictKeys(resp.value.scores)
                /\ DictGet(resp.value.scores, m) =
                      metric_score(m, resp.req.image_path,
                          IF m \in SeqElems(get_fr_metrics)
                          THEN resp.req.reference_path ELSE NoneStr)

\* C3 witness: a response of a call in which the provider failed for one
\* metric and succeeded for another
C3_Witness ==
    /\ resp.kind = "response"
    /\ resp.pfail # {}
    /\ resp.pok \ resp.pfail # {}
    /\ DictKeys(resp.value.scores) # {}
    /\ DictKeys(resp.value.errors) # {}

\* C4 (as claimed): every requested metric name of an answered single-image
\* request is in exactly one of the scores map and the errors map.
C4_EveryNameReported ==
    resp.kind = "response" =>
        \A m \in Requested(resp.req) :
            (m \in DictKeys(resp.value.scores)) # (m \in DictKeys(resp.value.errors))

C12_RepeatServedFromCache ==
    (/\ nreq >= 2
     /\ resp.kind = "response"
     /\ seen.first.kind = "response"
     /\ resp.req = seen.first.req
     /\ seen.first.pfail = {}
     /\ seen.roomy
     /\ seen.tret - seen.t0 <= CACHE_TIMEOUT) =>
        /\ resp.value.scores = seen.first.value.scores
        /\ resp.pok = {}
        /\ resp.pfail = {}

\* C12 witness: a repeat of a two-metric request, answered one TTL after
\* the first request was received, served from the cache
C12_Witness ==
    /\ nreq >= 2
    /\ resp.kind = "response"
    /\ seen.first.kind = "response"
    /\ resp.req = seen.first.req
    /\ seen.first.pfail = {}
    /\ seen.first.pok = {"niqe", "brisque"}
    /\ maxsize = 2
    /\ seen.roomy
    /\ seen.tret - seen.t0 = CACHE_TIMEOUT
    /\ Len(resp.value.scores) = 2
    /\ resp.pok = {}

\* C13 (as claimed): the cache key separates the tuples (metric name, image
\* path, reference path or absent), so every score of a response, taken
\* from the cache or not, is the score of the provider for the tuple of the
\* request itself.
C13_KeySeparatesTuples ==
    resp.kind = "response" =>
        \A m \in DictKeys(resp.value.scores) :
            DictGet(resp.value.scores, m) =
                metric_score(m, resp.req.image_path,
                    IF m \in SeqElems(get_fr_metrics)
                    THEN resp.req.reference_path ELSE NoneStr)

\* C16: a single-image request whose image path or reference path is
\* invalid is rejected with InvalidInputError, and the step that rejects a
\* request invokes no provider and makes no cache operation: the store, the
\* timestamps and the record of the last cache operation are those of
\* before the request.
C16_InvalidRejected ==
    (/\ resp.kind \in {"response", "exception"}
     /\ \/ ~validate_image_path(resp.req.image_path).is_valid
        \/ /\ Truthy(resp.req.reference_path)
           /\ ~validate_image_path(resp.req.reference_path).is_valid) =>
        /\ resp.kind = "exception"
        /\ resp.type = "InvalidInputError"
        /\ resp.pok = {}
        /\ resp.pfail = {}
        /\ call.pc = "idle"

C16_RejectionLeavesCache ==
    (nreq' = nreq + 1 /\ resp'.kind = "exception") =>
        /\ UNCHANGED <<cache, timestamps, last, written>>
        /\ call' = IdleCall

C16_RejectedBeforeWork == [](C16_InvalidRejected) /\ [][C16_RejectionLeavesCache]_vars

\* C16 witness: a request with an invalid reference path was rejected while
\* the cache held the scores of an earlier request
C16_Witness ==
    /\ resp.kind = "exception"
    /\ resp.req.image_path = "a.png"
    /\ resp.req.reference_path = "missing.png"
    /\ resp.msg = "Invalid reference image path: Image file not found: missing.png"
    /\ cache # <<>>

(***************************************************************************)
(* Claims about PerformanceMonitor and the locks, checked under            *)
(* SpecThreads.                                                            *)
(***************************************************************************)
\* C17: a thread invokes the provider while it holds neither the cache lock
\* nor the monitor lock; a thread holds the cache lock only inside get, put
\* or clear and the monitor lock only inside _update_metrics, get_metrics
\* or reset, and holds no lock once the call has returned.
C17_LocksAroundMapsOnly ==
    \A t \in Threads :
        /\ th[t].clean
        /\ th[t].pc = "miss" => (cache_lock # t /\ monitor_lock # t)
        /\ cache_lock = t <=> th[t].pc \in {"get", "put", "clear"}
        /\ monitor_lock = t <=> th[t].pc \in {"update", "updated", "get_metrics", "reset"}

\* C17 witness: a thread is about to invoke the provider, after a cache
\* miss, while the other thread is inside cache.get with the cache lock
C17_Witness ==
    /\ th[1].pc = "miss"
    /\ th[2].pc = "get"
    /\ cache_lock = 2
    /\ th[1].clean

\* the statistics of a function as the monitor has them (0 when it has none)
CountOf(func_name) ==
    IF func_name \in DOMAIN monitor_metrics
    THEN heap[monitor_metrics[func_name]].count
    ELSE 0

\* C18 (as claimed): every call of a tracked function, coroutine function
\* or plain function, has added one to count by the time it returns: count
\* is the number of calls returned since the last reset, plus the calls
\* that have stored their statistics and are about to return.
C18_CountsEveryCall ==
    \A n \in TrackedNames :
        CountOf(n) = tracked.returned[n]
                     + Cardinality({t \in Threads :
                           /\ th[t].func_name = n
                           /\ th[t].pc \in {"updated", "return"}
                           /\ ~th[t].stale})

\* C19 (as claimed): the caller of a tracked function gets what the call of
\* the function itself gives: the same value or the same exception.
C19_SameOutcome ==
    \A t \in Threads :
        th[t].got.kind # "none" => th[t].got = th[t].unwrapped

\* C20 (as claimed): what the caller reads from the value get_metrics gave
\* it stays what it was when get_metrics returned.
C20_SnapshotFrozen ==
    snap.kind # "none" => Deref(snap.refs, heap) = snap.copy

(***************************************************************************)
(* Claims about handle_batch_assessment, checked under SpecBatch.          *)
(***************************************************************************)
\* the request passes the precondition of lines 131-135
LengthsAgree(req) ==
    ~(TruthyList(req.reference_path) /\ Len(req.reference_path) # Len(req.image_path))

\* C2: a batch request that passes the length precondition is answered with
\* a list as long as image_paths whose i-th element names image_paths[i] in
\* its metadata, whatever order the units finished in and whether they
\* succeeded or failed; only a request that fails the precondition raises.
C2_BatchOrderPreserved ==
    /\ resp.kind = "exception" => ~LengthsAgree(resp.req)
    /\ resp.kind = "batch" =>
          /\ LengthsAgree(resp.req)
          /\ Len(resp.value) = Len(resp.req.image_path)
          /\ \A i \in 1..Len(resp.req.image_path) :
                resp.value[i].metadata.image_path = resp.req.image_path[i]

\* C2 witness: the units finished out of order, one failed, one succeeded
C2_Witness ==
    /\ resp.kind = "batch"
    /\ Len(resp.value) = 2
    /\ resp.order = <<2, 1>>
    /\ resp.req.image_path[1] # resp.req.image_path[2]
    /\ \E i, j \in 1..2 : resp.units[i].kind = "error" /\ resp.units[j].kind = "response"

\* C14 (as claimed): a batch request whose reference_paths is given (not
\* None, the empty list included) with a length other than that of
\* image_paths is rejected with InvalidInputError, and no unit is started
\* for it.
C14_LengthMismatchRejected ==
    /\ (/\ resp.kind \in {"batch", "exception"}
        /\ resp.req.reference_path # NoneList
        /\ Len(resp.req.reference_path) # Len(resp.req.image_path)) =>
            (resp.kind = "exception" /\ resp.type = "InvalidInputError")
    /\ batch.pc = "running" =>
            \/ batch.reference_paths = NoneList
            \/ Len(batch.reference_paths) = Len(batch.image_paths)

\* the units of the running batch that have started and not finished
RunningUnits ==
    {i \in 1..Len(batch.slots) : batch.slots[i].kind = "running"}

\* C15: at every moment of a batch at most one unit has started and not
\* finished, whatever the number of images, and while a unit is running no
\* other unit starts (the units not started stay pending).
C15_OneUnitAtATime == Cardinality(RunningUnits) <= 1

C15_OthersWait ==
    RunningUnits # {} =>
        \A i \in 1..Len(batch.slots) :
            batch.slots[i].kind = "pending" => batch'.slots[i].kind = "pending"

UnitFaulty(image_path, reference_path, metrics) ==
    LET req == [image_path |-> image_path, metrics |-> metrics,
                reference_path |-> reference_path]
    IN \/ ~validate_image_path(image_path).is_valid
       \/ Truthy(reference_path) /\ ~validate_image_path(reference_path).is_valid
       \/ NamesFr(req) /\ ~Truthy(reference_path)

\* C6: in the list of a batch, the slot of an image whose unit raised has an
\* empty scores map and exactly one error entry, under "assessment_error";
\* the slot of every other image is the regular response for that image:
\* no "assessment_error" entry, every known requested metric in exactly one
\* of scores and errors, the scores those of the image itself and the
\* errors those of the provider failures of its own unit.
C6_FailedUnitIsolated ==
    resp.kind = "batch" =>
        \A i \in 1..Len(resp.value) :
            LET image_path == resp.req.image_path[i]
                reference_path == UnitReference(resp.req.reference_path, i)
                req == [image_path |-> image_path, metrics |-> resp.req.metrics,
                        reference_path |-> reference_path]
                known == Requested(req) \cap
                            (SeqElems(get_fr_metrics) \cup SeqElems(get_nr_metrics))
                item == resp.value[i]
            IN  IF UnitFaulty(image_path, reference_path, resp.req.metrics)
                THEN /\ resp.units[i].kind = "error"
                     /\ item.scores = <<>>
                     /\ Len(item.errors) = 1
                     /\ DictKeys(item.errors) = {"assessment_error"}
                     /\ item.metadata.image_path = image_path
                ELSE /\ resp.units[i].kind = "response"
                     /\ "assessment_error" \notin DictKeys(item.errors)
                     /\ DictKeys(item.scores) \cup DictKeys(item.errors) = known
                     /\ DictKeys(item.scores) \cap DictKeys(item.errors) = {}
                     /\ DictKeys(item.errors) = resp.units[i].pfail
                     /\ \A m \in DictKeys(item.scores) :
                           DictGet(item.scores, m) =
                              metric_score(m, image_path,
                                  IF m \in SeqElems(get_fr_metrics)
                                  THEN reference_path ELSE NoneStr)
                     /\ item.metadata.image_path = image_path

\* C6 witness: a batch in which one unit raised and another returned scores
C6_Witness ==
    /\ resp.kind = "batch"
    /\ \E i, j \in 1..Len(resp.value) :
          /\ resp.units[i].kind = "error"
          /\ resp.units[j].kind = "response"
          /\ DictKeys(resp.value[j].scores) # {}


(***************************************************************************)
(* Claims about the statistics of PerformanceMonitor, checked under        *)
(* SpecMonitor.                                                            *)
(***************************************************************************)
\* the statistics the monitor has of a function
StatsOf(mm, h, func_name) == h[mm[func_name]]

\* C21: reset(name) removes the statistics of name and leaves the functions
\* the monitor has statistics of, and their statistics, as they were;
\* reset() removes them all; after the reset get_metrics of what was reset
\* is empty, and the first call stored for a function after its reset
\* leaves count 1.
C21_ResetIsolated ==
    /\ [][\A func_name \in MonitorQueryNames :
            MonitorReset(func_name) =>
              /\ IF func_name # NoneStr
                 THEN /\ DOMAIN monitor_metrics' = (DOMAIN monitor_metrics) \ {func_name}
                      /\ \A n \in DOMAIN monitor_metrics' :
                            StatsOf(monitor_metrics', heap', n)
                              = StatsOf(monitor_metrics, heap, n)
                 ELSE DOMAIN monitor_metrics' = {}
              /\ Deref(get_metrics(monitor_metrics', func_name), heap') = <<>>]_vars
    /\ [](\A n \in MonitorNames :
            /\ Len(recorded.since[n]) = 1 =>
                  /\ n \in DOMAIN monitor_metrics
                  /\ StatsOf(monitor_metrics, heap, n).count = 1
            /\ (/\ recorded.op = "get_metrics"
                /\ recorded.arg = n
                /\ recorded.since[n] = <<>>) => recorded.got = <<>>)

\* C21 witness: a function that had statistics and was reset by name has
\* had one call stored since, while another function's two calls, stored
\* before that reset, are still counted
C21_Witness ==
    /\ recorded.op = "update"
    /\ recorded.arg = "handle_assess_image_quality"
    /\ "handle_assess_image_quality" \in recorded.was_reset
    /\ Len(recorded.since["handle_assess_image_quality"]) = 1
    /\ "handle_batch_assessment" \notin recorded.was_reset
    /\ "handle_batch_assessment" \in DOMAIN monitor_metrics
    /\ StatsOf(monitor_metrics, heap, "handle_batch_assessment").count = 1
\* the sum of a sequence of durations
RECURSIVE SumOf(_)
SumOf(ds) == IF ds = <<>> THEN 0 ELSE ds[1] + SumOf(Tail(ds))

\* C27: every function the monitor has statistics of has count >= 1,
\* min_time <= max_time, total_time the sum of the durations stored since
\* its last reset, and avg_time * count = total_time; after one stored call
\* min_time = max_time and avg_time = total_time.
C27_StatsConsistent ==
    \A n \in DOMAIN monitor_metrics :
        LET m == StatsOf(monitor_metrics, heap, n)
            ds == recorded.since[n]
        IN /\ m.count >= 1
           /\ m.count = Len(ds)
           /\ m.min_time <= m.max_time
           /\ m.total_time = SumOf(ds)
           /\ m.avg_time.num * m.count = m.total_time * m.avg_time.den
           /\ m.count = 1 =>
                 /\ m.min_time = m.max_time
                 /\ m.avg_time.num = m.total_time * m.avg_time.den

\* C27 witness: two calls of different durations are stored for a function
\* since its statistics were reset
C27_Witness ==
    /\ "handle_assess_image_quality" \in recorded.was_reset
    /\ recorded.since["handle_assess_image_quality"] = <<3, 1>>
    /\ StatsOf(monitor_metrics, heap, "handle_assess_image_quality").min_time = 1
    /\ StatsOf(monitor_metrics, heap, "handle_assess_image_quality").max_time = 3

(***************************************************************************)
(* Claims about the score interpretation and about validate_image_path,    *)
(* checked under SpecAnswers.                                              *)
(***************************************************************************)
\* the bands of the metric the last call asked about, in the table the
\* called function reads
BandsAsked ==
    IF answer.op = "get_interpretation"
    THEN IF answer.name \in DOMAIN INTERPRETATIONS
         THEN INTERPRETATIONS[answer.name].ranges ELSE <<>>
    ELSE IF answer.op = "get_metric_interpretation"
    THEN IF answer.name \in DOMAIN METRIC_INTERPRETATIONS
         THEN METRIC_INTERPRETATIONS[answer.name].ranges ELSE <<>>
    ELSE <<>>

\* the band [start, end) holds the score
InBand(band, score) == band.min_val <= score /\ score < band.max_val

\* C22 (as claimed): when the metric has bands and a score was supplied,
\* the interpretation returned is the label of the band whose half-open
\* interval [start, end) holds the score, so a score on the boundary of two
\* bands gets the label of the band that starts there.
C22_HalfOpenBands ==
    answer.score # NoneScore =>
        \A i \in 1..Len(BandsAsked) :
            InBand(BandsAsked[i], answer.score[1]) =>
                /\ answer.out.kind = "return"
                /\ "interpretation" \in DOMAIN answer.out.value
                /\ answer.out.value["interpretation"] = BandsAsked[i].description

\* C23 (as claimed): the response of the get_metric_interpretation tool for
\* a metric that has bands holds an interpretation exactly when a score was
\* supplied; the call does not fail, and for a score that no band holds,
\* closed ends included, the interpretation is the out-of-range sentinel.
C23_LabelIffScore ==
    (answer.op = "get_metric_interpretation" /\ BandsAsked # <<>>) =>
        /\ answer.out.kind = "return"
        /\ "interpretation" \in DOMAIN answer.out.value <=> answer.score # NoneScore
        /\ (/\ answer.score # NoneScore
            /\ \A i \in 1..Len(BandsAsked) : ~contains(BandsAsked[i], answer.score[1]))
             => /\ "interpretation" \in DOMAIN answer.out.value
                /\ answer.out.value["interpretation"] = "Score out of expected ranges"

\* C24 (as claimed): validate_image_path gives (False, unsupported format)
\* for every path whose suffix is not supported, whether the file exists or
\* not; (False, not found) for a supported suffix and no file; and
\* (True, None) only for a file that exists, has a supported suffix and
\* passes Image.verify().
C24_SuffixBeforeExistence ==
    answer.op = "validate_image_path" =>
        LET path == answer.name
            r == answer.out.value
            supported == lower(suffix(path)) \in SUPPORTED_FORMATS
        IN /\ ~supported =>
                 r = [is_valid |-> FALSE,
                      error |-> "Unsupported image format: " \o suffix(path)]
           /\ (supported /\ path \notin DOMAIN Files) =>
                 r = [is_valid |-> FALSE, error |-> "Image file not found: " \o path]
           /\ r.is_valid =>
                 /\ r.error = NoneStr
                 /\ path \in DOMAIN Files
                 /\ supported
                 /\ Files[path].verifies

(***************************************************************************)
(* Claims about the metric registry of IQAServer, checked under SpecServer.*)
(***************************************************************************)
\* C25: a startup that succeeds leaves an instance of every default metric
\* in the registry; while the registry is not emptied by shutdown an
\* instance is made at most once for a name, and _get_or_create_metric
\* returns the instance the registry holds and, for a name already held,
\* the instance it held before; a call that fails raises ServerError; when
\* shutdown returns the registry is empty, whatever tool calls were made.
C25_RegistryLifecycle ==
    /\ (server.last.op = "startup" /\ server.last.kind = "return") =>
          SeqElems(DEFAULT_FR_METRICS \o DEFAULT_NR_METRICS) \subseteq DOMAIN server.metrics
    /\ \A n \in RegistryNames :
          /\ server.created[n] <= 1
          /\ server.created[n] = 1 => n \in DOMAIN server.metrics
    /\ (server.last.op = "_get_or_create_metric" /\ server.last.kind = "return") =>
          /\ server.last.name \in DOMAIN server.metrics
          /\ server.last.ret = server.metrics[server.last.name]
          /\ server.last.name \in DOMAIN server.last.before =>
                /\ server.last.ret = server.last.before[server.last.name]
                /\ server.metrics = server.last.before
    /\ server.last.kind = "raise" => server.last.type = "ServerError"
    /\ server.last.op = "shutdown" => (server.last.kind = "return" /\ server.metrics = <<>>)

\* C25 witness: shutdown has emptied a registry that held the instances of
\* the default metrics, the second instance of psnr among them, after a
\* tool call was handled
C25_Witness ==
    /\ server.last.op = "shutdown"
    /\ SeqElems(DEFAULT_FR_METRICS \o DEFAULT_NR_METRICS) \subseteq DOMAIN server.last.before
    /\ server.last.before["psnr"] = Instance("psnr", 2)
    /\ server.metrics = <<>>
    /\ answer.op = "get_metric_interpretation"

(***************************************************************************)
(* Claims about what the handlers write to the cache.                      *)
(***************************************************************************)
\* the position of unit idx in the order the units of a batch finished in
RECURSIVE PositionIn(_, _)
PositionIn(order, idx) ==
    IF order = <<>> THEN 0
    ELSE IF Head(order) = idx THEN 1
    ELSE 1 + PositionIn(Tail(order), idx)

\* no entry can have expired, and no put has had to remove a key
NoExpiryNoEviction ==
    /\ now <= CACHE_TIMEOUT
    /\ Cardinality(DOMAIN written) <= maxsize

KeyAtHead ==
    cache_key(Head(call.todo).kind, Head(call.todo).name,
              call.image_path, call.reference_path)

\* C28: a step of a call stores a value under a key only when the provider
\* has just given that score for the metric the call is at, under the key
\* of that metric, image and reference; a step in which the provider fails
\* stores nothing: the key of the metric is not in the cache afterwards and
\* every entry that stays is as it was; and when the provider failed for a
\* metric of the first request and gave no score for it, the same request
\* made again invokes the provider for it again. Checked under SpecRepeat.
C28_StoredOnlyAfterSuccess ==
    /\ [][/\ (\E k \in DOMAIN cache' : k \notin DOMAIN cache \/ cache'[k] # cache[k])
              => /\ call.pc = "loop" /\ call.todo # <<>>
                 /\ Head(call.todo).name \in call'.pok
                 /\ call'.pfail = call.pfail
                 /\ \A k \in DOMAIN cache' :
                       (k \notin DOMAIN cache \/ cache'[k] # cache[k]) =>
                          /\ k = KeyAtHead
                          /\ cache'[k] = DictGet(call'.results, Head(call.todo).name)
          /\ (call.pc = "loop" /\ call.todo # <<>> /\ call'.pfail # call.pfail)
              => /\ KeyAtHead \notin DOMAIN cache'
                 /\ DOMAIN cache' \subseteq DOMAIN cache
                 /\ \A k \in DOMAIN cache' : cache'[k] = cache[k]]_vars
    /\ [](/\ nreq = 2
          /\ resp.kind = "response"
          /\ seen.first.kind = "response"
          /\ resp.req = seen.first.req
          => \A m \in seen.first.pfail \ seen.first.pok : m \in resp.pok \cup resp.pfail)

\* C28 witness: the provider failed for niqe in the first request and gave
\* its score in the same request made again, which stored it
C28_Witness ==
    /\ nreq = 2
    /\ resp.kind = "response"
    /\ resp.req = seen.first.req
    /\ "niqe" \in seen.first.pfail
    /\ "niqe" \in resp.pok
    /\ cache_key("nr", "niqe", "a.png", NoneStr) \in DOMAIN cache

\* C29 (as claimed): put(k, v) for a key the cache holds sets k's value and
\* access time and removes no key, also when the cache holds maxsize
\* entries: the keys stored are the same before and after. Checked under
\* SpecCache.
C29_OverwriteKeepsKeys ==
    [][\A key \in Keys, value \in Values :
          (CachePut(key, value) /\ key \in DOMAIN cache) =>
              /\ DOMAIN cache' = DOMAIN cache
              /\ cache'[key] = value
              /\ DictGet(timestamps', key) = now]_vars

(***************************************************************************)
(* Claims about BaseIndicator, checked under SpecIndicator.                *)
(***************************************************************************)
\* C30 (as claimed): whenever the indicator is marked initialized its
\* metric instance is present; no call invokes a missing metric, so compute
\* after cleanup gets a new instance first; and compute of a metric that
\* requires a reference, called without one, raises ValueError without
\* invoking the metric instance.
C30_InitializedHasInstance ==
    /\ indicator.is_initialized => indicator.iqa_metric # NoInstance
    /\ indicator.last.invoked # "missing"
    /\ (/\ indicator.last.op = "compute"
        /\ indicator.requires_ref
        /\ indicator.last.ref_path = NoneStr
        /\ indicator.last.type # "Exception")
          => /\ indicator.last.kind = "raise"
             /\ indicator.last.type = "ValueError"
             /\ indicator.last.invoked = "none"

====
